---- MODULE Spec2Model ----
(***************************************************************************)
(* A model of liminal_backrooms: the turn scheduler and branch tree of     *)
(* main.py (ConversationManager, Worker, ai_turn) and the provider gateway *)
(* of shared_utils.py (invoke_provider, normalize_response,                *)
(* format_reasoning_response).                                             *)
(*                                                                         *)
(* Text is a sequence of elements.  A one-letter element is a character;   *)
(* a longer element stands for a fixed piece of text (a literal of the     *)
(* source, a tag, a word) that is taken as a whole.                        *)
(***************************************************************************)
EXTENDS Integers, Sequences, FiniteSets, TLC

VARIABLES
    main_conversation,     \* app.main_conversation
    branch_conversations,  \* app.branch_conversations: branch id -> branch data
    active_branch,         \* app.active_branch
    turn_count,            \* app.turn_count
    loading,               \* left_pane.loading (input field and button disabled)
    iterations_selector,   \* control_panel.iterations_selector.currentText()
    sequences,             \* the worker pairs in flight, one record per turn-pair
    clock,                 \* the value time.time() last returned
    last_turn,             \* what the latest ai_turn call assembled
    last_branch,           \* what the latest branch callback built
    errors_raised,         \* how many Worker.run calls ended in the except branch
    pairs_started,         \* how many worker pairs have been started
    user_actions,          \* how many user actions have been taken
    provider_call,         \* one call of invoke_provider: its arguments and outcome
    normalize_call,        \* one call of normalize_response on a plain string
    reasoning_call         \* format_reasoning_response, applied and applied again

schedVars == <<main_conversation, branch_conversations, active_branch, turn_count,
               loading, iterations_selector, sequences, clock, last_turn,
               last_branch, errors_raised, pairs_started, user_actions>>

vars == <<schedVars, provider_call, normalize_call, reasoning_call>>

----------------------------------------------------------------------------
(* Bounds of the model *)

\* the user acts at most this many times (input, rabbithole, fork, select)
MaxUserActions == 3
\* at most this many Worker.run calls raise
MaxErrors == 2
\* at most this many worker pairs are started
MaxPairs == 5
\* the same three bounds for the user who does not wait
MaxEagerActions == 3
MaxEagerPairs == 2
MaxEagerErrors == 1
\* the pairs followed where progress is checked
MaxLivePairs == 3

----------------------------------------------------------------------------
(* Text *)

\* s occurs in t starting at index i (1-based)
OccursAt(s, t, i) ==
    /\ i >= 1
    /\ i + Len(s) - 1 <= Len(t)
    /\ \A k \in 1..Len(s) : t[i + k - 1] = s[k]

\* Python: s in t
Contains(t, s) == \E i \in 1..(Len(t) + 1) : OccursAt(s, t, i)

\* Python: t.find(s) + 1, for s in t
Find(t, s) == CHOOSE i \in 1..(Len(t) + 1) :
                  /\ OccursAt(s, t, i)
                  /\ \A j \in 1..(i - 1) : ~OccursAt(s, t, j)

Whitespace == {" ", "\n"}

\* Python: not t.strip()
IsBlank(t) == \A i \in 1..Len(t) : t[i] \in Whitespace

\* a key a dict does not hold, or Python's None as a value
Absent == <<"(absent)">>

\* Python: t.startswith(s)
StartsWith(t, s) == Len(s) <= Len(t) /\ SubSeq(t, 1, Len(s)) = s

\* Python: c.lower(), for the letters of the model
Lower(c) == IF c = "E" THEN "e" ELSE IF c = "R" THEN "r" ELSE IF c = "O" THEN "o" ELSE c

\* Python: t.lower()
LowerText(t) == [i \in 1..Len(t) |-> Lower(t[i])]

RECURSIVE StripLeft(_)
\* Python: t.lstrip()
StripLeft(t) == IF t # <<>> /\ Head(t) \in Whitespace THEN StripLeft(Tail(t)) ELSE t

RECURSIVE StripRight(_)
\* Python: t.rstrip()
StripRight(t) ==
    IF t # <<>> /\ t[Len(t)] \in Whitespace
    THEN StripRight(SubSeq(t, 1, Len(t) - 1)) ELSE t

\* a variant of strip() that leaves the end of the text alone
StripLeftOnly(t) == StripLeft(t)

\* Python: t.strip()
Strip(t) == StripRight(StripLeft(t))

----------------------------------------------------------------------------
(* Messages *)

NoName == "None"
NoType == "None"

\* a conversation entry: the keys of the message dicts the handlers read
Message(role, content, ai_name, hidden, type) ==
    [role |-> role, content |-> content, ai_name |-> ai_name,
     hidden |-> hidden, _type |-> type]

\* process_input / process_branch_input: {"role": "user", "content": user_input}
UserMessage(text) == Message("user", text, NoName, FALSE, NoType)

\* process_branch_input_with_hidden_instruction: the same, "hidden": True
HiddenUserMessage(text) == Message("user", text, NoName, TRUE, NoType)

\* on_ai_response_received: role assistant, whatever the envelope's role was
AiMessage(ai_name, content) == Message("assistant", content, ai_name, FALSE, NoType)

ErrorPrefix == <<"E", "r", "r", "o", "r", ":", " ">>

\* on_ai_error: {"role": "system", "content": f"Error: {error_message}"}
ErrorMessage(error_message) ==
    Message("system", ErrorPrefix \o error_message, NoName, FALSE, NoType)

Quote == "\""
RabbitholeMark == "Rabbitholing down:"
ForkMark == "Forking off:"

\* rabbithole_callback: the branch indicator appended at the end
RabbitholeIndicator(selected_text) ==
    Message("system",
            <<"(rabbit) ", RabbitholeMark, " ", Quote>> \o selected_text \o <<Quote>>,
            NoName, FALSE, "branch_indicator")

\* fork_callback: the branch indicator appended as the last message
ForkIndicator(selected_text) ==
    Message("system",
            <<"(fork) ", ForkMark, " ", Quote>> \o selected_text \o <<Quote>>,
            NoName, FALSE, "branch_indicator")

IsIndicator(msg) == msg._type = "branch_indicator"

----------------------------------------------------------------------------
(* ai_turn: the message list assembled for the provider *)

\* Python: content.split('"')[1] if '"' in content else ""
SplitQuote(content) ==
    IF ~Contains(content, <<Quote>>) THEN <<>>
    ELSE LET i == Find(content, <<Quote>>)
             rest == SubSeq(content, i + 1, Len(content))
         IN  IF Contains(rest, <<Quote>>)
             THEN SubSeq(rest, 1, Find(rest, <<Quote>>) - 1)
             ELSE rest

\* the indexes of the branch markers of a conversation
Markers(conversation) ==
    {i \in 1..Len(conversation) : IsIndicator(conversation[i])}

MaxOf(S) == CHOOSE x \in S : \A y \in S : y <= x

\* is_rabbithole: some marker names a rabbithole (the flag is never cleared)
IsRabbithole(conversation) ==
    \E i \in Markers(conversation) :
        Contains(conversation[i].content, <<RabbitholeMark>>)

\* is_fork: some marker that is no rabbithole marker names a fork
IsFork(conversation) ==
    \E i \in Markers(conversation) :
        /\ ~Contains(conversation[i].content, <<RabbitholeMark>>)
        /\ Contains(conversation[i].content, <<ForkMark>>)

\* branch_text: the quoted text of the last marker that names a branch type
BranchText(conversation) ==
    LET typed == {i \in Markers(conversation) :
                     \/ Contains(conversation[i].content, <<RabbitholeMark>>)
                     \/ Contains(conversation[i].content, <<ForkMark>>)}
    IN  IF typed = {} THEN <<>>
        ELSE SplitQuote(conversation[MaxOf(typed)].content)

\* ai_response_count: assistant messages after the latest branch marker
AiResponseCount(conversation) ==
    IF Markers(conversation) = {} THEN 0
    ELSE Cardinality({i \in 1..Len(conversation) :
                         /\ i > MaxOf(Markers(conversation))
                         /\ conversation[i].role = "assistant"})

\* the branch-specific system prompt chosen at lines 183-198
BranchSystemPrompt(conversation, system_prompt) ==
    IF IsRabbithole(conversation) /\ AiResponseCount(conversation) < 2
    THEN <<"'">> \o BranchText(conversation) \o <<"'!!!">>
    ELSE IF IsFork(conversation) /\ AiResponseCount(conversation) = 0
    THEN <<"The conversation forks from'">> \o BranchText(conversation)
             \o <<"'. Continue naturally from this point.">>
    ELSE system_prompt

\* line 201: system_prompt = enhanced_system_prompt, the prompt ai_turn was
\* called with; the branch-specific choice above is overwritten
EffectiveSystemPrompt(conversation, system_prompt) ==
    LET enhanced_system_prompt == system_prompt
        chosen == BranchSystemPrompt(conversation, system_prompt)
    IN  enhanced_system_prompt

ConnectingText == "Connecting..."

\* Python: "connect" in content.lower()
HasConnect(content) == \E i \in 1..Len(content) : content[i] = ConnectingText

\* a variant of the skip tests that lets messages of role system through
SkippedKeepingSystem(msg) ==
    \/ msg.hidden /\ HasConnect(msg.content)
    \/ IsBlank(msg.content)

\* the messages ai_turn skips before the duplicate test
Skipped(msg) ==
    \/ msg.hidden /\ HasConnect(msg.content)
    \/ IsBlank(msg.content)
    \/ msg.role = "system"

RECURSIVE FilterFromAdjacent(_, _, _)
\* a variant of the loop that compares a message with the last kept one only
FilterFromAdjacent(conversation, i, filtered) ==
    IF i > Len(conversation) THEN filtered
    ELSE LET msg == conversation[i]
             is_duplicate == /\ filtered # <<>>
                             /\ filtered[Len(filtered)].content = msg.content
         IN  IF (\/ msg.hidden /\ (\E c \in 1..Len(msg.content) : msg.content[c] = "Connecting...")
                 \/ IsBlank(msg.content)
                 \/ msg.role = "system"
                 \/ is_duplicate)
             THEN FilterFromAdjacent(conversation, i + 1, filtered)
             ELSE FilterFromAdjacent(conversation, i + 1, Append(filtered, msg))

RECURSIVE FilterFromKeepingLatest(_, _, _)
\* a variant of the loop that keeps the latest of the messages of equal content
FilterFromKeepingLatest(conversation, i, filtered) ==
    IF i > Len(conversation) THEN filtered
    ELSE LET msg == conversation[i]
             others == SelectSeq(filtered, LAMBDA kept : kept.content # msg.content)
         IN  IF Skipped(msg)
             THEN FilterFromKeepingLatest(conversation, i + 1, filtered)
             ELSE FilterFromKeepingLatest(conversation, i + 1, Append(others, msg))

RECURSIVE FilterFrom(_, _, _)
\* the loop at lines 213-243, from index i on, with filtered so far
FilterFrom(conversation, i, filtered) ==
    IF i > Len(conversation) THEN filtered
    ELSE LET msg == conversation[i]
             is_duplicate == \E k \in 1..Len(filtered) :
                                 filtered[k].content = msg.content
         IN  IF Skipped(msg) \/ is_duplicate
             THEN FilterFrom(conversation, i + 1, filtered)
             ELSE FilterFrom(conversation, i + 1, Append(filtered, msg))

\* filtered_conversation
FilteredConversation(conversation) == FilterFrom(conversation, 1, <<>>)

\* a variant that sends each kept message with the role it is stored with
AssignedRoleStored(msg, ai_name) == msg.role

\* lines 246-264: the role each kept message is sent with
AssignedRole(msg, ai_name) == IF msg.ai_name = ai_name THEN "assistant" ELSE "user"

RabbitholeInstruction(branch_text) ==
    <<"Please explore the concept of '">> \o branch_text
        \o <<"' in depth. What are the most interesting aspects or connections related to this concept?">>

ForkInstruction(branch_text) ==
    <<"Continue on naturally from the point about '">> \o branch_text
        \o <<"' without including this text.">>

ContinueText == <<"Let's continue our conversation.">>

\* lines 283-300: the most recent kept message that is not the speaker's
OtherAiMessage(filtered, ai_name) ==
    LET others == {k \in 1..Len(filtered) : filtered[k].ai_name # ai_name}
    IN  IF others = {} THEN <<>> ELSE filtered[MaxOf(others)].content

\* lines 266-300: the user message appended after a trailing assistant message
SyntheticContent(conversation, filtered, ai_name) ==
    IF IsRabbithole(conversation) /\ BranchText(conversation) # <<>>
    THEN RabbitholeInstruction(BranchText(conversation))
    ELSE IF IsFork(conversation) /\ BranchText(conversation) # <<>>
    THEN ForkInstruction(BranchText(conversation))
    ELSE IF OtherAiMessage(filtered, ai_name) # <<>>
    THEN OtherAiMessage(filtered, ai_name)
    ELSE ContinueText

\* a variant of the test at line 267 that asks for one more entry
NeedsTrailingUserLong(messages) ==
    Len(messages) > 2 /\ messages[Len(messages)].role = "assistant"

\* line 267: the test that decides whether a user message is appended
NeedsTrailingUser(messages) ==
    Len(messages) > 1 /\ messages[Len(messages)].role = "assistant"

\* lines 205-300: the list sent to the provider
AssembleMessages(ai_name, conversation, system_prompt) ==
    LET filtered == FilteredConversation(conversation)
        head == <<[role |-> "system",
                   content |-> EffectiveSystemPrompt(conversation, system_prompt)]>>
        body == [k \in 1..Len(filtered) |->
                    [role |-> AssignedRole(filtered[k], ai_name),
                     content |-> filtered[k].content]]
        messages == head \o body
    IN  IF NeedsTrailingUser(messages)
        THEN Append(messages,
                    [role |-> "user",
                     content |-> SyntheticContent(conversation, filtered, ai_name)])
        ELSE messages

\* what one ai_turn call leaves for inspection
AiTurn(ai_name, conversation, system_prompt) ==
    [ai_name |-> ai_name,
     conversation |-> conversation,
     filtered |-> FilteredConversation(conversation),
     messages |-> AssembleMessages(ai_name, conversation, system_prompt)]

----------------------------------------------------------------------------
(* Branch creation: rabbithole_callback and fork_callback *)

NoBranch == <<>>

\* the conversation a callback or handler works on: the active branch's, or main
ActiveConversation(S) ==
    IF S.active # NoBranch THEN S.branches[S.active].conversation ELSE S.main

\* Python: [msg.copy() for msg in conversation if msg is no branch indicator]
RECURSIVE WithoutIndicators(_)
WithoutIndicators(conversation) ==
    IF conversation = <<>> THEN <<>>
    ELSE IF IsIndicator(Head(conversation))
    THEN WithoutIndicators(Tail(conversation))
    ELSE <<Head(conversation)>> \o WithoutIndicators(Tail(conversation))

\* a variant of rabbithole_callback's copy that keeps the parent's indicators
RabbitholeConversationAll(parent_conversation, selected_text) ==
    Append(parent_conversation, RabbitholeIndicator(selected_text))

\* rabbithole_callback, lines 891-903: the branch transcript at creation
RabbitholeConversation(parent_conversation, selected_text) ==
    Append(WithoutIndicators(parent_conversation), RabbitholeIndicator(selected_text))

\* fork_callback, lines 956-960: the messages the first pass may stop at
HoldsSelection(msg, selected_text) ==
    /\ msg.role \in {"user", "assistant"}
    /\ Contains(msg.content, selected_text)

\* truncate_idx: the first such message, 0 for Python's None
TruncateIdx(parent_conversation, selected_text) ==
    LET hits == {i \in 1..Len(parent_conversation) :
                    HoldsSelection(parent_conversation[i], selected_text)}
    IN  IF hits = {} THEN 0 ELSE CHOOSE i \in hits : \A j \in hits : i <= j

\* a variant of the cut that stops before the selected text
TruncatedContentBefore(content, selected_text) ==
    IF Contains(content, selected_text)
    THEN SubSeq(content, 1, Find(content, selected_text) - 1)
    ELSE content

\* lines 985-995: content[:pos + len(selected_text)]
TruncatedContent(content, selected_text) ==
    IF Contains(content, selected_text)
    THEN SubSeq(content, 1, Find(content, selected_text) + Len(selected_text) - 1)
    ELSE content

RECURSIVE ForkCopyFrom(_, _, _, _)
\* the second pass, lines 973-1001, from index i on
ForkCopyFrom(parent_conversation, selected_text, truncate_idx, i) ==
    IF i > Len(parent_conversation) THEN <<>>
    ELSE LET msg == parent_conversation[i]
             rest == ForkCopyFrom(parent_conversation, selected_text, truncate_idx, i + 1)
         IN  IF msg.role = "system" /\ ~IsIndicator(msg)
             THEN <<msg>> \o rest
             ELSE IF i < truncate_idx
             THEN <<msg>> \o rest
             ELSE IF i = truncate_idx
             THEN <<[msg EXCEPT !.content = TruncatedContent(msg.content, selected_text)]>>
                      \o rest
             ELSE rest

\* fork_callback, lines 951-1009: the branch transcript at creation
ForkConversation(parent_conversation, selected_text) ==
    LET truncate_idx == TruncateIdx(parent_conversation, selected_text)
        copied == IF truncate_idx = 0
                  THEN WithoutIndicators(parent_conversation)
                  ELSE ForkCopyFrom(parent_conversation, selected_text, truncate_idx, 1)
    IN  Append(copied, ForkIndicator(selected_text))

\* the hidden instruction fork_callback passes on
ForkHiddenInstruction == <<"...">>

----------------------------------------------------------------------------
(* The scheduler: ConversationManager and Worker *)

\* the values user_input takes besides typed text: Python's None
NoInput == <<"(None)">>

\* Python: if user_input:
Truthy(user_input) == user_input # NoInput /\ user_input # <<>>

\* SYSTEM_PROMPT_PAIRS[selected_prompt_pair][key]
PersonaPrompt(key) == <<"persona of ", key>>

\* process_branch_input, line 618: the rabbithole prompt
RabbitholePrompt(selected_text) ==
    <<"You are interacting with another AI. IMPORTANT: explore the concept of '">>
        \o selected_text \o <<"' in depth.">>

\* process_branch_input_with_hidden_instruction, line 1081
RabbitholeHiddenPrompt(selected_text) == <<"'">> \o selected_text \o <<"'!!!">>

NoResult == [content |-> <<>>, display |-> <<>>, raised |-> FALSE]

\* the program state the handlers read and write, as one record
Current ==
    [main |-> main_conversation, branches |-> branch_conversations,
     active |-> active_branch, turn_count |-> turn_count, loading |-> loading,
     sequences |-> sequences]

\* the history a user-started sequence begins with
FirstPair(S, seeded) ==
    [pair_no |-> 1, quiet |-> TRUE, target |-> S.active,
     base |-> Len(ActiveConversation(S)), seeded |-> seeded,
     alone |-> \A k \in 1..Len(S.sequences) : S.sequences[k].pc = "done"]

\* the history the next pair of a sequence continues with
NextPair(seq) ==
    [pair_no |-> seq.pair_no + 1, quiet |-> seq.quiet, target |-> seq.target,
     base |-> seq.base, seeded |-> seq.seeded, alone |-> seq.alone]

\* worker1 and worker2 as constructed and connected, worker1 started:
\* both hold conversation.copy(); max_iterations is bound in the lambda.
\* The fields of hist are history only, read by no handler.
NewSequence(conversation, ai_1_prompt, ai_2_prompt, max_iterations, hist) ==
    [pc |-> "ai1_run",
     conversation1 |-> conversation, conversation2 |-> conversation,
     prompt1 |-> ai_1_prompt, prompt2 |-> ai_2_prompt,
     max_iterations |-> max_iterations, result |-> NoResult,
     pair_no |-> hist.pair_no, quiet |-> hist.quiet, target |-> hist.target,
     base |-> hist.base, seeded |-> hist.seeded, alone |-> hist.alone]

\* process_input, lines 421-478, with no active branch
ProcessMainInput(S, user_input, max_iterations, hist) ==
    LET conversation == IF Truthy(user_input)
                        THEN Append(S.main, UserMessage(user_input))
                        ELSE S.main
        S1 == [S EXCEPT !.main = conversation]
        h == IF hist.pair_no = 0 THEN FirstPair(S1, Truthy(user_input)) ELSE hist
    IN  [S1 EXCEPT
            !.loading = TRUE,
            !.turn_count = IF user_input # NoInput \/ conversation = <<>>
                           THEN 0 ELSE @,
            !.sequences = Append(@, NewSequence(conversation, PersonaPrompt("AI_1"),
                                                PersonaPrompt("AI_2"),
                                                max_iterations, h))]

\* process_branch_input, lines 573-584: the last of two equal trailing
\* messages is removed
DropTrailingDuplicate(conversation) ==
    IF /\ Len(conversation) >= 2
       /\ conversation[Len(conversation)].content
              = conversation[Len(conversation) - 1].content
    THEN SubSeq(conversation, 1, Len(conversation) - 1)
    ELSE conversation

\* ai_response_count in process_branch_input: every assistant message
AssistantCount(conversation) ==
    Cardinality({i \in 1..Len(conversation) : conversation[i].role = "assistant"})

\* process_branch_input, lines 606-634: when turn_count is reset
ResetsBranchTurnCount(user_input, conversation) ==
    user_input # NoInput \/ AssistantCount(conversation) = 0

\* process_branch_input, lines 566-655, with an active branch
ProcessActiveBranchInput(S, user_input, max_iterations, hist) ==
    LET branch_data == S.branches[S.active]
        deduped == DropTrailingDuplicate(branch_data.conversation)
        conversation == IF Truthy(user_input)
                        THEN Append(deduped, UserMessage(user_input))
                        ELSE deduped
        initial == branch_data.type = "rabbithole" /\ AssistantCount(conversation) < 2
        ai_1_prompt == IF initial THEN RabbitholePrompt(branch_data.selected_text)
                       ELSE PersonaPrompt("AI_1")
        ai_2_prompt == IF initial THEN RabbitholePrompt(branch_data.selected_text)
                       ELSE PersonaPrompt("AI_2")
        S1 == [S EXCEPT !.branches[S.active].conversation = conversation]
        h == IF hist.pair_no = 0 THEN FirstPair(S1, Truthy(user_input)) ELSE hist
    IN  [S1 EXCEPT
            !.loading = TRUE,
            !.turn_count = IF ResetsBranchTurnCount(user_input, conversation)
                           THEN 0 ELSE @,
            !.sequences = Append(@, NewSequence(conversation, ai_1_prompt, ai_2_prompt,
                                                max_iterations, h))]

\* process_branch_input_with_hidden_instruction, lines 1045-1118
ProcessHiddenInstruction(S, user_input, max_iterations, hist) ==
    LET branch_data == S.branches[S.active]
        conversation == IF Truthy(user_input)
                        THEN Append(branch_data.conversation, HiddenUserMessage(user_input))
                        ELSE branch_data.conversation
        initial == branch_data.type = "rabbithole" /\ AssistantCount(conversation) < 2
        ai_1_prompt == IF initial THEN RabbitholeHiddenPrompt(branch_data.selected_text)
                       ELSE PersonaPrompt("AI_1")
        ai_2_prompt == IF initial THEN RabbitholeHiddenPrompt(branch_data.selected_text)
                       ELSE PersonaPrompt("AI_2")
        S1 == [S EXCEPT !.branches[S.active].conversation = conversation]
        h == IF hist.pair_no = 0 THEN FirstPair(S1, Truthy(user_input)) ELSE hist
    IN  [S1 EXCEPT
            !.loading = TRUE,
            !.turn_count = IF ResetsBranchTurnCount(user_input, conversation)
                           THEN 0 ELSE @,
            !.sequences = Append(@, NewSequence(conversation, ai_1_prompt, ai_2_prompt,
                                                max_iterations, h))]

\* process_input and process_branch_input: each hands over to the other
\* according to app.active_branch
ProcessInput(S, user_input, max_iterations, hist) ==
    IF S.active # NoBranch
    THEN ProcessActiveBranchInput(S, user_input, max_iterations, hist)
    ELSE ProcessMainInput(S, user_input, max_iterations, hist)

UserStarted == [pair_no |-> 0]

\* config.py: SHARE_CHAIN_OF_THOUGHT
SHARE_CHAIN_OF_THOUGHT == TRUE

\* what ai_turn may return to Worker.run: content and, from a provider whose
\* reply went through format_reasoning_response, a display text
PlainReply(content) == [content |-> content, display |-> <<>>, raised |-> FALSE]
DisplayReply(content) ==
    [content |-> content, display |-> <<"[Final Answer]\n">> \o content, raised |-> FALSE]
ErrorReply == PlainReply(ErrorPrefix \o <<"Request to OpenRouter timed out">>)
Raised == [content |-> <<"exception text">>, display |-> <<>>, raised |-> TRUE]

\* the inputs of the model; Replies: what the model behind a speaker answers
UserTexts == {<<"a">>}
Selections == {<<"a">>, <<"b", "b">>}
Replies(ai_name) == IF ai_name = "AI-1" THEN {DisplayReply(<<"a", "b">>)}
                    ELSE {PlainReply(<<"a">>)}
Iterations == {1, 2}

NoTurn == [ai_name |-> NoName, conversation |-> <<>>, filtered |-> <<>>, messages |-> <<>>]
NoBranchCreated ==
    [type |-> "none", branch_id |-> NoBranch, selected_text |-> <<>>,
     parent_conversation |-> <<>>, conversation |-> <<>>]

SchedInit ==
    /\ main_conversation = <<>>
    /\ branch_conversations = <<>>
    /\ active_branch = NoBranch
    /\ turn_count = 0
    /\ loading = FALSE
    /\ iterations_selector \in Iterations
    /\ sequences = <<>>
    /\ clock = 0
    /\ last_turn = NoTurn
    /\ last_branch = NoBranchCreated
    /\ errors_raised = 0
    /\ pairs_started = 0
    /\ user_actions = 0

\* the handlers' result becomes the program state
Install(S) ==
    /\ main_conversation' = S.main
    /\ branch_conversations' = S.branches
    /\ active_branch' = S.active
    /\ turn_count' = S.turn_count
    /\ loading' = S.loading
    /\ sequences' = S.sequences

\* history: the user has acted since these sequences were started
AfterUserAction(S) ==
    [S EXCEPT !.sequences = [k \in DOMAIN @ |-> [@[k] EXCEPT !.quiet = FALSE]]]

\* ConversationPane.handle_propagate_click (gui.py) -> process_input(text);
\* the input field and the button are disabled while loading
HandlePropagateClick(input_text) ==
    /\ pairs_started < MaxPairs
    /\ pairs_started' = pairs_started + 1
    /\ ~loading
    /\ user_actions < MaxUserActions
    /\ user_actions' = user_actions + 1
    /\ Install([ProcessInput(AfterUserAction(Current), input_text,
                             iterations_selector, UserStarted)
                   EXCEPT !.loading = TRUE])
    /\ UNCHANGED <<iterations_selector, clock, last_turn, last_branch, errors_raised>>

\* time.time() at a branch creation: later than the value last returned, or
\* that value again (which matters when it names a branch of the same kind)
Times(kind) ==
    {clock + 1} \cup (IF <<kind, clock>> \in DOMAIN branch_conversations
                      THEN {clock} ELSE {})

\* render_conversation (gui.py) skips the messages without content; the context
\* menu offers its branch entries only for a selection, so for a display that
\* shows some text
SomethingDisplayed(conversation) ==
    \E i \in 1..Len(conversation) : conversation[i].content # <<>>

\* rabbithole_callback
RabbitholeCallback(selected_text, now) ==
    /\ SomethingDisplayed(ActiveConversation(Current))
    /\ pairs_started < MaxPairs
    /\ pairs_started' = pairs_started + 1
    /\ user_actions < MaxUserActions
    /\ user_actions' = user_actions + 1
    /\ clock' = now
    /\ LET S == AfterUserAction(Current)
           branch_id == <<"rabbithole", now>>
           parent_conversation == ActiveConversation(S)
           branch_conversation == RabbitholeConversation(parent_conversation, selected_text)
           branch_data == [type |-> "rabbithole", selected_text |-> selected_text,
                           conversation |-> branch_conversation, parent |-> S.active]
           S1 == [S EXCEPT
                     !.branches = [b \in DOMAIN @ \cup {branch_id} |->
                                      IF b = branch_id THEN branch_data ELSE @[b]],
                     !.active = branch_id]
       IN  /\ Install(ProcessInput(S1, selected_text, iterations_selector, UserStarted))
           /\ last_branch' = [type |-> "rabbithole", branch_id |-> branch_id,
                              selected_text |-> selected_text,
                              parent_conversation |-> parent_conversation,
                              conversation |-> branch_conversation]
    /\ UNCHANGED <<iterations_selector, last_turn, errors_raised>>

\* fork_callback
ForkCallback(selected_text, now) ==
    /\ SomethingDisplayed(ActiveConversation(Current))
    /\ pairs_started < MaxPairs
    /\ pairs_started' = pairs_started + 1
    /\ user_actions < MaxUserActions
    /\ user_actions' = user_actions + 1
    /\ clock' = now
    /\ LET S == AfterUserAction(Current)
           branch_id == <<"fork", now>>
           parent_conversation == ActiveConversation(S)
           branch_conversation == ForkConversation(parent_conversation, selected_text)
           branch_data == [type |-> "fork", selected_text |-> selected_text,
                           conversation |-> branch_conversation, parent |-> S.active]
           S1 == [S EXCEPT
                     !.branches = [b \in DOMAIN @ \cup {branch_id} |->
                                      IF b = branch_id THEN branch_data ELSE @[b]],
                     !.active = branch_id]
       IN  /\ Install(ProcessHiddenInstruction(S1, ForkHiddenInstruction,
                                               iterations_selector, UserStarted))
           /\ last_branch' = [type |-> "fork", branch_id |-> branch_id,
                              selected_text |-> selected_text,
                              parent_conversation |-> parent_conversation,
                              conversation |-> branch_conversation]
    /\ UNCHANGED <<iterations_selector, last_turn, errors_raised>>

\* LiminalBackroomsApp.on_branch_select (gui.py); NoBranch stands for 'main'
OnBranchSelect(branch_id) ==
    /\ user_actions < MaxUserActions
    /\ user_actions' = user_actions + 1
    /\ branch_id # active_branch
    /\ Install([AfterUserAction(Current) EXCEPT !.active = branch_id])
    /\ UNCHANGED <<iterations_selector, clock, last_turn, last_branch, errors_raised, pairs_started>>

\* the speaker of the worker a sequence is at
Speaker(seq) == IF seq.pc \in {"ai1_run", "ai1_response", "ai1_result", "ai1_error",
                               "ai1_finished"}
                THEN "AI-1" ELSE "AI-2"

\* the sequence's next signal, after the one just handled
Advance(seq, stage) ==
    [seq EXCEPT !.pc = (IF Speaker(seq) = "AI-1" THEN "ai1_" ELSE "ai2_") \o stage]

AtStage(seq, stage) == seq.pc \in {"ai1_" \o stage, "ai2_" \o stage}

\* appending to the conversation the handlers select by app.active_branch
AppendToActive(S, msg) ==
    IF S.active # NoBranch
    THEN [S EXCEPT !.branches[S.active].conversation = Append(@, msg)]
    ELSE [S EXCEPT !.main = Append(@, msg)]

\* a variant of Worker.run that appends the reply to the transcript itself
\* instead of leaving that to the slot of its response signal
WorkerRunWriting(k, outcome) ==
    /\ k \in DOMAIN sequences
    /\ AtStage(sequences[k], "run")
    /\ outcome.raised => errors_raised < MaxErrors
    /\ errors_raised' = IF outcome.raised THEN errors_raised + 1 ELSE errors_raised
    /\ LET seq == sequences[k]
           S == AppendToActive(Current, AiMessage(Speaker(seq), outcome.content))
       IN  /\ last_turn' = IF Speaker(seq) = "AI-1"
                           THEN AiTurn("AI-1", seq.conversation1, seq.prompt1)
                           ELSE AiTurn("AI-2", seq.conversation2, seq.prompt2)
           /\ Install([S EXCEPT !.sequences[k] =
                  [Advance(seq, IF outcome.raised THEN "error" ELSE "response")
                      EXCEPT !.result = outcome]])
    /\ UNCHANGED <<iterations_selector, clock, last_branch, user_actions, pairs_started>>

\* Worker.run: ai_turn on the worker's copy, then the signals response, result
\* and finished, or error and finished when ai_turn raised
WorkerRun(k, outcome) ==
    /\ k \in DOMAIN sequences
    /\ AtStage(sequences[k], "run")
    /\ outcome.raised => errors_raised < MaxErrors
    /\ errors_raised' = IF outcome.raised THEN errors_raised + 1 ELSE errors_raised
    /\ LET seq == sequences[k]
       IN  /\ last_turn' = IF Speaker(seq) = "AI-1"
                           THEN AiTurn("AI-1", seq.conversation1, seq.prompt1)
                           ELSE AiTurn("AI-2", seq.conversation2, seq.prompt2)
           /\ sequences' = [sequences EXCEPT ![k] =
                  [Advance(seq, IF outcome.raised THEN "error" ELSE "response")
                      EXCEPT !.result = outcome]]
    /\ UNCHANGED <<main_conversation, branch_conversations, active_branch, turn_count,
                   loading, iterations_selector, clock, last_branch, user_actions, pairs_started>>

\* on_ai_response_received
OnAiResponseReceived(k) ==
    /\ k \in DOMAIN sequences
    /\ AtStage(sequences[k], "response")
    /\ LET seq == sequences[k]
           S == AppendToActive(Current, AiMessage(Speaker(seq), seq.result.content))
       IN  Install([S EXCEPT !.sequences[k] = Advance(seq, "result")])
    /\ UNCHANGED <<iterations_selector, clock, last_turn, last_branch, errors_raised,
                   user_actions, pairs_started>>

\* on_ai_result_received, lines 719-749: the content stored on the latest
\* assistant message of that speaker
StoreResult(conversation, ai_name, result) ==
    LET mine == {i \in 1..Len(conversation) :
                    /\ conversation[i].role = "assistant"
                    /\ conversation[i].ai_name = ai_name}
    IN  IF mine = {} THEN conversation
        ELSE [conversation EXCEPT ![MaxOf(mine)].content =
                 IF SHARE_CHAIN_OF_THOUGHT /\ result.display # <<>>
                 THEN result.display ELSE result.content]

\* on_ai_result_received
OnAiResultReceived(k) ==
    /\ k \in DOMAIN sequences
    /\ AtStage(sequences[k], "result")
    /\ LET seq == sequences[k]
           S == Current
           S1 == IF S.active # NoBranch
                 THEN [S EXCEPT !.branches[S.active].conversation =
                          StoreResult(@, Speaker(seq), seq.result)]
                 ELSE [S EXCEPT !.main = StoreResult(@, Speaker(seq), seq.result)]
       IN  Install([S1 EXCEPT !.sequences[k] = Advance(seq, "finished")])
    /\ UNCHANGED <<iterations_selector, clock, last_turn, last_branch, errors_raised,
                   user_actions, pairs_started>>

\* a variant in which the worker emits no finished signal after its error
\* signal: the sequence ends with the error message
OnAiErrorUnfinished(k) ==
    /\ k \in DOMAIN sequences
    /\ AtStage(sequences[k], "error")
    /\ LET seq == sequences[k]
           S == AppendToActive(Current, ErrorMessage(seq.result.content))
       IN  Install([S EXCEPT !.loading = FALSE,
                             !.sequences[k].pc = "done"])
    /\ UNCHANGED <<iterations_selector, clock, last_turn, last_branch, errors_raised,
                   user_actions, pairs_started>>

\* on_ai_error
OnAiError(k) ==
    /\ k \in DOMAIN sequences
    /\ AtStage(sequences[k], "error")
    /\ LET seq == sequences[k]
           S == AppendToActive(Current, ErrorMessage(seq.result.content))
       IN  Install([S EXCEPT !.loading = FALSE,
                             !.sequences[k] = Advance(seq, "finished")])
    /\ UNCHANGED <<iterations_selector, clock, last_turn, last_branch, errors_raised,
                   user_actions, pairs_started>>

\* visible_conversation, as the handlers build it before display_conversation
\* (lines 434, 595, 682, 693, 772, 917, 1026)
VisibleConversation(conversation) ==
    SelectSeq(conversation, LAMBDA msg : ~msg.hidden)

\* on_ai_error, lines 850-852 and 861-862: the conversation it hands to
\* display_conversation, which renders every message that has content
ErrorDisplay(S) == ActiveConversation(S)

\* start_ai2_turn, connected to worker1's finished signal
StartAi2Turn(k) ==
    /\ k \in DOMAIN sequences
    /\ sequences[k].pc = "ai1_finished"
    /\ sequences' = [sequences EXCEPT ![k] =
           [@ EXCEPT !.pc = "ai2_run",
                     !.conversation2 = ActiveConversation(Current)]]
    /\ UNCHANGED <<main_conversation, branch_conversations, active_branch, turn_count,
                   loading, iterations_selector, clock, last_turn, last_branch,
                   errors_raised, user_actions, pairs_started>>

\* a sequence without its k-th element
Without(seqs, k) == SubSeq(seqs, 1, k - 1) \o SubSeq(seqs, k + 1, Len(seqs))

\* a variant of the test of handle_turn_completion that runs one pair more
StartsAnotherTurnLate(count, max_iterations) == count <= max_iterations

\* handle_turn_completion, lines 522-545: whether another pair is started
StartsAnotherTurn(count, max_iterations) == count < max_iterations

\* Python: str(n), for the iteration counts of the selector
IterationsText(n) == IF n = 1 THEN "1" ELSE IF n = 2 THEN "2" ELSE "n"

\* handle_turn_completion, lines 530-531 and 544-545: what is shown when the
\* limit is reached, in the status bar of the window
CompletedStatus(max_iterations) ==
    <<"Completed ", IterationsText(max_iterations), " turns">>

\* handle_turn_completion, lines 508, 523 and 539: the count of completed
\* pairs compared with max_iterations when a pair of a sequence on transcript
\* b has completed; the application keeps the one count app.turn_count
GoverningCount(b) == turn_count

\* handle_turn_completion, connected to worker2's finished signal
HandleTurnCompletion(k) ==
    /\ k \in DOMAIN sequences
    /\ sequences[k].pc = "ai2_finished"
    /\ LET seq == sequences[k]
           S == [Current EXCEPT !.loading = FALSE, !.turn_count = @ + 1]
       IN  IF StartsAnotherTurn(S.turn_count, seq.max_iterations)
           THEN /\ pairs_started < MaxPairs
                /\ pairs_started' = pairs_started + 1
                /\ Install(ProcessInput([S EXCEPT !.sequences = Without(@, k)], NoInput,
                                          iterations_selector, NextPair(seq)))
           ELSE /\ pairs_started' = pairs_started
                /\ Install([S EXCEPT !.sequences[k].pc = "done"])
    /\ UNCHANGED <<iterations_selector, clock, last_turn, last_branch, errors_raised,
                   user_actions>>

----------------------------------------------------------------------------
(* format_reasoning_response *)

\* the tags of the pattern <(think|thinking)>(.*?)</\1>, each one element of a text
OpenTags == {"<think>", "<thinking>"}
CloseTag(open) == IF open = "<think>" THEN "</think>" ELSE "</thinking>"

\* where the pattern, tried at index i, ends: the first closing tag of the
\* same name after an opening tag at i; 0 when it does not match there
MatchEnd(text, i) ==
    IF text[i] \notin OpenTags THEN 0
    ELSE LET closes == {j \in (i + 1)..Len(text) : text[j] = CloseTag(text[i])}
         IN  IF closes = {} THEN 0 ELSE CHOOSE j \in closes : \A k \in closes : j <= k

RECURSIVE FindBlocks(_, _)
\* re.findall: the inner texts of the matches, left to right, from index i on
FindBlocks(text, i) ==
    IF i > Len(text) THEN <<>>
    ELSE IF MatchEnd(text, i) = 0 THEN FindBlocks(text, i + 1)
    ELSE <<SubSeq(text, i + 1, MatchEnd(text, i) - 1)>>
             \o FindBlocks(text, MatchEnd(text, i) + 1)

RECURSIVE RemoveBlocks(_, _)
\* re.sub(pattern, ''): the text without the matches, from index i on
RemoveBlocks(text, i) ==
    IF i > Len(text) THEN <<>>
    ELSE IF MatchEnd(text, i) = 0 THEN <<text[i]>> \o RemoveBlocks(text, i + 1)
    ELSE RemoveBlocks(text, MatchEnd(text, i) + 1)

RECURSIVE StrippedNonBlank(_)
\* [block.strip() for block in blocks if block.strip()]
StrippedNonBlank(blocks) ==
    IF blocks = <<>> THEN <<>>
    ELSE IF IsBlank(Head(blocks)) THEN StrippedNonBlank(Tail(blocks))
    ELSE <<Strip(Head(blocks))>> \o StrippedNonBlank(Tail(blocks))

RECURSIVE Deduped(_, _)
\* lines 117-121: the blocks in order, each once
Deduped(blocks, seen) ==
    IF blocks = <<>> THEN <<>>
    ELSE IF Head(blocks) \in seen THEN Deduped(Tail(blocks), seen)
    ELSE <<Head(blocks)>> \o Deduped(Tail(blocks), seen \cup {Head(blocks)})

RECURSIVE JoinLines(_)
\* "\n".join(blocks)
JoinLines(blocks) ==
    IF blocks = <<>> THEN <<>>
    ELSE IF Len(blocks) = 1 THEN blocks[1]
    ELSE blocks[1] \o <<"\n">> \o JoinLines(Tail(blocks))

\* the text from index i up to the end of its line
RestOfLine(text, i) ==
    LET breaks == {j \in i..Len(text) : text[j] = "\n"}
    IN  IF breaks = {} THEN SubSeq(text, i, Len(text))
        ELSE SubSeq(text, i, (CHOOSE j \in breaks : \A k \in breaks : j <= k) - 1)

\* the index after the run of whitespace that starts at i
RECURSIVE SkipWhitespace(_, _)
SkipWhitespace(text, i) ==
    IF i <= Len(text) /\ text[i] \in Whitespace THEN SkipWhitespace(text, i + 1) ELSE i

\* final_answer_pattern, tried at index i: "answer", whitespace, a colon or
\* dash, whitespace, then the rest of the line as group 1; <<>> when it does
\* not match there with a group that holds more than blanks
AnswerAt(text, i) ==
    IF text[i] # "answer" THEN <<>>
    ELSE LET c == SkipWhitespace(text, i + 1)
         IN  IF c > Len(text) \/ text[c] \notin {":", "-"} THEN <<>>
             ELSE LET g == SkipWhitespace(text, c + 1)
                  IN  IF g > Len(text) THEN <<>>
                      ELSE Strip(RestOfLine(text, g))

\* final_answer_pattern.search(block), group(1).strip(): the leftmost match
AnswerCandidate(block) ==
    LET hits == {i \in 1..Len(block) : AnswerAt(block, i) # <<>>}
    IN  IF hits = {} THEN <<>>
        ELSE AnswerAt(block, CHOOSE i \in hits : \A k \in hits : i <= k)

RECURSIVE LastLine(_)
\* the last line of a text that holds more than blanks, stripped
LastLine(text) ==
    IF text = <<>> THEN <<>>
    ELSE LET breaks == {j \in 1..Len(text) : text[j] = "\n"}
             last == IF breaks = {} THEN 0
                     ELSE CHOOSE j \in breaks : \A k \in breaks : k <= j
             line == SubSeq(text, last + 1, Len(text))
         IN  IF ~IsBlank(line) THEN Strip(line)
             ELSE IF last = 0 THEN <<>>
             ELSE LastLine(SubSeq(text, 1, last - 1))

\* lines 124-144: a final answer surfaced from the reasoning; every block
\* holds more than blanks, so the loop ends in its first round, on the last block
SurfacedAnswer(deduped_reasoning, reasoning_text) ==
    LET block == deduped_reasoning[Len(deduped_reasoning)]
        candidate == IF AnswerCandidate(block) # <<>> THEN AnswerCandidate(block)
                     ELSE LastLine(block)
    IN  IF candidate # <<>> THEN candidate ELSE reasoning_text

\* config.py: SHOW_CHAIN_OF_THOUGHT_IN_CONTEXT
SHOW_CHAIN_OF_THOUGHT_IN_CONTEXT == TRUE

\* lines 155-167: result["display"]
DisplayText(cleaned_content, reasoning_text) ==
    LET thought == IF reasoning_text # Absent
                   THEN <<"[Chain of Thought]\n">> \o reasoning_text ELSE <<>>
        answer == IF cleaned_content # <<>>
                  THEN <<"[Final Answer]\n">> \o cleaned_content ELSE <<>>
    IN  IF thought # <<>> /\ answer # <<>> THEN thought \o <<"\n\n">> \o answer
        ELSE thought \o answer

\* format_reasoning_response(content, reasoning_blocks)
FormatReasoningResponse(content, reasoning_blocks) ==
    LET extracted_reasoning == StrippedNonBlank(FindBlocks(content, 1))
        cleaned == Strip(RemoveBlocks(content, 1))
        combined_reasoning == StrippedNonBlank(reasoning_blocks) \o extracted_reasoning
        deduped_reasoning == Deduped(combined_reasoning, {})
        reasoning_text == IF combined_reasoning = <<>> THEN Absent
                          ELSE Strip(JoinLines(deduped_reasoning))
        cleaned_content == IF cleaned = <<>> /\ reasoning_text # Absent
                           THEN SurfacedAnswer(deduped_reasoning, reasoning_text)
                           ELSE cleaned
    IN  [content |-> IF ~SHOW_CHAIN_OF_THOUGHT_IN_CONTEXT /\ cleaned_content = <<>>
                        /\ reasoning_text # Absent
                     THEN reasoning_text ELSE cleaned_content,
         reasoning |-> reasoning_text,
         display |-> IF SHOW_CHAIN_OF_THOUGHT_IN_CONTEXT
                     THEN DisplayText(cleaned_content, reasoning_text)
                     ELSE Absent]

\* the longest content the model formats
MaxContentLen == 5

Tokens == {"<think>", "</think>", "<thinking>", "</thinking>", "x", "\n", "answer", ":"}

\* the contents of up to MaxContentLen elements
Contents == UNION {[1..n -> Tokens] : n \in 0..MaxContentLen}

\* the reasoning_blocks the callers pass: none, or one block of a reply
ReasoningBlocks == {<<>>, << <<"x">> >>, << <<"answer", ":", "x">> >>}

NoFormatResult == [content |-> Absent, reasoning |-> Absent, display |-> Absent]

NoFormat ==
    [pc |-> "none", content |-> <<>>, reasoning_blocks |-> <<>>,
     first |-> NoFormatResult, again |-> NoFormatResult]

----------------------------------------------------------------------------
(* The provider gateway: normalize_response and invoke_provider *)

\* Python: not value, for a text or an absent value
Falsy(value) == value = Absent \/ value = <<>>

\* what a provider handler hands back: None, a str, a dict or an exception
RawNone ==
    [kind |-> "none", text |-> Absent, role |-> "(absent)", content |-> Absent,
     error |-> Absent, reasoning |-> Absent, display |-> Absent]
RawString(text) == [RawNone EXCEPT !.kind = "str", !.text = text]
RawDict(role, content, error, reasoning, display) ==
    [kind |-> "dict", text |-> Absent, role |-> role, content |-> content,
     error |-> error, reasoning |-> reasoning, display |-> display]
RawRaise(text) == [RawNone EXCEPT !.kind = "raise", !.text = text]

NoProvider == "(none)"

\* the dicts normalize_response and build_error_response return
Envelope(role, content, reasoning, display) ==
    [role |-> role, content |-> content, reasoning |-> reasoning,
     display |-> display, provider |-> NoProvider]

NoResponseText == <<"Provider returned no response">>

\* build_error_response
BuildErrorResponse(message) ==
    Envelope("system",
             IF Falsy(message) THEN <<"An unknown error occurred">> ELSE message,
             Absent, Absent)

\* Python: content.lower().startswith("error")
StartsWithError(content) == StartsWith(LowerText(content), <<"e", "r", "r", "o", "r">>)

\* normalize_response, lines 209-216: a str
NormalizeString(response) ==
    LET stripped == Strip(response)
    IN  IF StartsWithError(stripped)
        THEN BuildErrorResponse(stripped)
        ELSE Envelope("assistant", response, Absent, Absent)

\* normalize_response, lines 185-207: a dict
NormalizeDict(response) ==
    LET role0 == IF response.role \in {"(absent)", ""} THEN "assistant" ELSE response.role
        content0 == response.content
        from_error == content0 = Absent /\ response.error # Absent
        content1 == IF from_error THEN response.error ELSE content0
        role == IF from_error THEN "system" ELSE role0
        content == IF content1 = Absent \/ IsBlank(content1)
                   THEN IF ~Falsy(response.reasoning)
                        THEN IF ~Falsy(response.display) THEN response.display
                             ELSE response.reasoning
                        ELSE <<>>
                   ELSE content1
    IN  IF IsBlank(content) /\ Falsy(response.reasoning)
        THEN BuildErrorResponse(NoResponseText)
        ELSE Envelope(role, content, response.reasoning, response.display)

\* normalize_response
NormalizeResponse(response) ==
    IF response.kind = "none" THEN BuildErrorResponse(NoResponseText)
    ELSE IF response.kind = "dict" THEN NormalizeDict(response)
    ELSE NormalizeString(response.text)

\* PROVIDER_REGISTRY: the keys that have a handler
PROVIDER_REGISTRY ==
    {"anthropic", "bedrock", "openai", "deepseek", "deepseek_legacy", "moonshot",
     "bigmodel", "gemini"}

\* Python: provider_name.lower()
LowerTag(provider_name) ==
    IF provider_name = "DeepSeek" THEN "deepseek" ELSE provider_name

\* PROVIDER_REGISTRY.get(provider_key) if provider_key else None
Registered(provider_key) ==
    provider_key # NoProvider /\ provider_key \in PROVIDER_REGISTRY

\* a variant of setdefault that leaves the dict as it is
WithProviderUnset(normalized, provider_key) == normalized

\* normalized.setdefault("provider", provider_key)
WithProvider(normalized, provider_key) ==
    IF normalized.provider = NoProvider
    THEN [normalized EXCEPT !.provider = provider_key]
    ELSE normalized

NoModel == "(none)"

\* one handler call: the handler's key and the model_id of the payload it got
HandlerCall(provider_key, payload) == [provider |-> provider_key, model_id |-> payload.model_id]

\* list.append(key) unless the list holds it
Attempt(attempted, provider_key) ==
    IF \E i \in 1..Len(attempted) : attempted[i] = provider_key
    THEN attempted ELSE Append(attempted, provider_key)

Attempted(attempted, provider_key) ==
    \E i \in 1..Len(attempted) : attempted[i] = provider_key

\* a variant of the gateway that keeps no list of attempted providers: on an
\* error reply it calls the fallback provider, whichever it is, once
InvokeProviderRetrying(provider_name, payload, attempted, calls, raw) ==
    LET provider_key == IF provider_name = NoProvider THEN NoProvider
                        ELSE LowerTag(provider_name)
        key == IF Registered(provider_key) THEN provider_key ELSE "openrouter"
        normalized == IF raw[key].kind = "raise"
                      THEN BuildErrorResponse(<<"Provider '", key, "' error: ">>
                                                  \o raw[key].text)
                      ELSE WithProvider(NormalizeResponse(raw[key]), key)
        calls1 == Append(calls, HandlerCall(key, payload))
        fallback_key == IF payload.fallback_provider = NoProvider THEN NoProvider
                        ELSE LowerTag(payload.fallback_provider)
        again == IF Registered(fallback_key) THEN fallback_key ELSE "openrouter"
    IN  IF /\ Registered(provider_key)
           /\ fallback_key # NoProvider
           /\ normalized.role = "system"
           /\ StartsWithError(normalized.content)
        THEN [response |-> IF raw[again].kind = "raise"
                           THEN BuildErrorResponse(<<"Provider '", again, "' error: ">>
                                                       \o raw[again].text)
                           ELSE WithProvider(NormalizeResponse(raw[again]), again),
              attempted |-> <<key>>,
              calls |-> Append(calls1, HandlerCall(again, payload))]
        ELSE [response |-> normalized, attempted |-> <<key>>, calls |-> calls1]

RECURSIVE InvokeProvider(_, _, _, _, _)
\* invoke_provider; raw[key] is what the handler of that key hands back, and
\* attempted the list payload["attempted_providers"], which the copied payload
\* of the fallback call shares
InvokeProvider(provider_name, payload, attempted, calls, raw) ==
    LET provider_key == IF provider_name = NoProvider THEN NoProvider
                        ELSE LowerTag(provider_name)
        attempted1 == IF provider_key # NoProvider
                      THEN Attempt(attempted, provider_key) ELSE attempted
        default ==
            [response |-> WithProvider(NormalizeResponse(raw["openrouter"]), "openrouter"),
             attempted |-> Attempt(attempted1, "openrouter"),
             calls |-> Append(calls, HandlerCall("openrouter", payload))]
    IN  IF Registered(provider_key)
        THEN LET raw_result == raw[provider_key]
                 calls1 == Append(calls, HandlerCall(provider_key, payload))
                 normalized == WithProvider(NormalizeResponse(raw_result), provider_key)
                 fallback_key == payload.fallback_provider
             IN  IF raw_result.kind = "raise"
                 THEN [response |-> BuildErrorResponse(
                                      <<"Provider '", provider_key, "' error: ">>
                                          \o raw_result.text),
                       attempted |-> attempted1, calls |-> calls1]
                 ELSE IF /\ fallback_key # NoProvider
                         /\ normalized.role = "system"
                         /\ StartsWithError(normalized.content)
                         /\ ~Attempted(attempted1, LowerTag(fallback_key))
                 THEN InvokeProvider(LowerTag(fallback_key),
                                     [payload EXCEPT !.model_id = payload.fallback_model],
                                     attempted1, calls1, raw)
                 ELSE [response |-> normalized, attempted |-> attempted1,
                       calls |-> calls1]
        ELSE IF /\ provider_key = "deepseek"
                /\ "deepseek_legacy" \in PROVIDER_REGISTRY
                /\ ~Attempted(attempted1, "deepseek_legacy")
        THEN LET raw_result == raw["deepseek_legacy"]
                 calls1 == Append(calls, HandlerCall("deepseek_legacy", payload))
                 attempted2 == Append(attempted1, "deepseek_legacy")
             IN  IF raw_result.kind = "raise"
                 THEN [response |-> BuildErrorResponse(
                                      <<"DeepSeek legacy fallback error: ">>
                                          \o raw_result.text),
                       attempted |-> attempted2, calls |-> calls1]
                 ELSE [response |-> WithProvider(NormalizeResponse(raw_result),
                                                 "deepseek_legacy"),
                       attempted |-> attempted2, calls |-> calls1]
        ELSE default

\* ai_turn, lines 361-367: a reply without a provider tag is given the tag
\* the model entry names (provider or metadata_provider), when there is one
ResolveProvider(provider_response, provider) ==
    IF provider_response.provider = NoProvider /\ provider # NoProvider
    THEN [provider_response EXCEPT !.provider = provider]
    ELSE provider_response

\* the inputs of the gateway
ProviderNames == {NoProvider, "anthropic", "deepseek", "DeepSeek", "deepseek_legacy",
                  "openrouter", "mistral"}
FallbackProviders == {NoProvider, "deepseek", "deepseek_legacy", "mistral"}
FallbackModels == {NoModel, "fallback-model"}

ErrorText == <<"E", "r", "r", "o", "r", ":", " ", "x">>
OkText == <<"o", "k">>

\* what a handler of the registry may hand back
HandlerResults ==
    {RawNone,
     RawString(OkText),
     RawString(ErrorText),
     RawDict("system", ErrorText, Absent, Absent, Absent),
     RawDict("(absent)", OkText, Absent, Absent, <<"[Final Answer]\n">> \o OkText),
     RawDict("(absent)", <<>>, Absent, Absent, <<>>),
     RawRaise(<<"x">>)}

\* what call_openrouter_api may hand back (it catches every exception)
OpenRouterResults ==
    {RawString(OkText),
     RawDict("(absent)", OkText, Absent, Absent, <<"[Final Answer]\n">> \o OkText),
     RawDict("(absent)", <<>>, Absent, Absent, <<>>),
     RawDict("system", ErrorText, Absent, Absent, Absent),
     RawDict("system", <<"OpenRouter API error 404: ">> \o <<"x">>, Absent, Absent, Absent)}

Words ==
    {<<>>, OkText, ErrorText, <<"e", "r", "r", "o", "r">>, <<"E", "R", "R", "O", "R", " ", "x">>,
     <<"e", "r", "r">>, <<"x", " ", "e", "r", "r", "o", "r">>}
Margins == {<<>>, <<" ">>, <<"\n", " ">>}

\* the plain strings normalize_response is applied to
PlainStrings == {before \o word \o after : before \in Margins, word \in Words,
                                           after \in Margins}

NoCall ==
    [pc |-> "none", provider_name |-> NoProvider,
     payload |-> [model_id |-> NoModel, fallback_provider |-> NoProvider,
                  fallback_model |-> NoModel],
     raw |-> <<>>, response |-> Envelope("(none)", <<>>, Absent, Absent),
     attempted |-> <<>>, calls |-> <<>>]

NoNormalize == [input |-> Absent, result |-> Envelope("(none)", <<>>, Absent, Absent)]

GatewayIdle ==
    /\ provider_call = NoCall
    /\ normalize_call = NoNormalize

\* the scheduler is left as constructed
SchedulerIdle ==
    /\ SchedInit
    /\ iterations_selector = 1

\* the arguments of one call: of invoke_provider, or of normalize_response
ProviderInit ==
    /\ SchedulerIdle
    /\ reasoning_call = NoFormat
    /\ \/ /\ normalize_call = NoNormalize
          /\ \E provider_name \in ProviderNames, fallback_provider \in FallbackProviders,
                fallback_model \in FallbackModels :
                 provider_call = [NoCall EXCEPT
                     !.pc = "ready",
                     !.provider_name = provider_name,
                     !.payload = [model_id |-> "test-model",
                                  fallback_provider |-> fallback_provider,
                                  fallback_model |-> fallback_model]]
       \/ /\ provider_call = NoCall
          /\ \E response \in PlainStrings :
                 normalize_call = [NoNormalize EXCEPT !.input = response]

\* the handlers a call can reach, with what each hands back
Handlers(primary, fallback, openrouter) ==
    [key \in PROVIDER_REGISTRY \cup {"openrouter"} |->
        IF key = "openrouter" THEN openrouter
        ELSE IF key = LowerTag(provider_call.provider_name) THEN primary
        ELSE fallback]

\* one call of invoke_provider, as ai_turn makes it
CallInvokeProvider(primary, fallback, openrouter) ==
    /\ provider_call.pc = "ready"
    /\ LET raw == Handlers(primary, fallback, openrouter)
           done == InvokeProvider(provider_call.provider_name, provider_call.payload,
                                  <<>>, <<>>, raw)
       IN  provider_call' = [provider_call EXCEPT
               !.pc = "done", !.raw = raw, !.response = done.response,
               !.attempted = done.attempted, !.calls = done.calls]
    /\ UNCHANGED normalize_call

\* one call of normalize_response on a plain string
CallNormalizeResponse ==
    /\ normalize_call.input # Absent
    /\ normalize_call.result = NoNormalize.result
    /\ normalize_call' = [normalize_call EXCEPT
           !.result = NormalizeResponse(RawString(normalize_call.input))]
    /\ UNCHANGED provider_call

\* a step of the gateway leaves the scheduler as it is
Gateway(A) == A /\ UNCHANGED <<schedVars, reasoning_call>>

ProviderNext ==
    \/ \E primary \in HandlerResults, fallback \in HandlerResults,
          openrouter \in OpenRouterResults :
           Gateway(CallInvokeProvider(primary, fallback, openrouter))
    \/ Gateway(CallNormalizeResponse)

ProviderSpec == ProviderInit /\ [][ProviderNext]_vars

ReasoningInit ==
    /\ SchedulerIdle
    /\ GatewayIdle
    /\ \E content \in Contents, reasoning_blocks \in ReasoningBlocks :
           reasoning_call = [NoFormat EXCEPT !.pc = "ready", !.content = content,
                                             !.reasoning_blocks = reasoning_blocks]

\* a provider function formats the content of a reply
FormatFirst ==
    /\ reasoning_call.pc = "ready"
    /\ reasoning_call' = [reasoning_call EXCEPT
           !.pc = "formatted",
           !.first = FormatReasoningResponse(reasoning_call.content,
                                             reasoning_call.reasoning_blocks)]

\* the content it returned is formatted again
FormatAgain ==
    /\ reasoning_call.pc = "formatted"
    /\ reasoning_call' = [reasoning_call EXCEPT
           !.pc = "again",
           !.again = FormatReasoningResponse(reasoning_call.first.content, <<>>)]

\* a step of the formatter leaves the rest as it is
Formatter(A) == A /\ UNCHANGED <<schedVars, provider_call, normalize_call>>

ReasoningNext == Formatter(FormatFirst) \/ Formatter(FormatAgain)

ReasoningSpec == ReasoningInit /\ [][ReasoningNext]_vars

----------------------------------------------------------------------------
(* The scheduler's specification *)

\* no worker pair is in flight
Idle == \A k \in DOMAIN sequences : sequences[k].pc = "done"

\* a step of the scheduler leaves the gateway as it is
Scheduler(A) == A /\ UNCHANGED <<provider_call, normalize_call, reasoning_call>>

\* a user who acts only while no worker pair is in flight
PatientUser(A) == Idle /\ Scheduler(A)

\* the user's actions, and the workers with the slots their signals are
\* connected to
SchedNext ==
    \/ \E input_text \in UserTexts \cup {<<>>} :
           PatientUser(HandlePropagateClick(input_text))
    \/ \E selected_text \in Selections, now \in Times("rabbithole") :
           PatientUser(RabbitholeCallback(selected_text, now))
    \/ \E selected_text \in Selections, now \in Times("fork") :
           PatientUser(ForkCallback(selected_text, now))
    \/ \E branch_id \in DOMAIN branch_conversations \cup {NoBranch} :
           PatientUser(OnBranchSelect(branch_id))
    \/ \E k \in DOMAIN sequences :
           \E outcome \in Replies(Speaker(sequences[k])) \cup {Raised} :
               Scheduler(WorkerRun(k, outcome))
    \/ \E k \in DOMAIN sequences : Scheduler(OnAiResponseReceived(k))
    \/ \E k \in DOMAIN sequences : Scheduler(OnAiResultReceived(k))
    \/ \E k \in DOMAIN sequences : Scheduler(OnAiError(k))
    \/ \E k \in DOMAIN sequences : Scheduler(StartAi2Turn(k))
    \/ \E k \in DOMAIN sequences : Scheduler(HandleTurnCompletion(k))

\* the state after construction
Init == SchedInit /\ GatewayIdle /\ reasoning_call = NoFormat

Spec == Init /\ [][SchedNext]_vars

\* the scheduler followed for a shorter while, for the properties of progress
Brief(A) == A /\ pairs_started' <= MaxLivePairs

BriefNext ==
    \/ \E input_text \in UserTexts \cup {<<>>} :
           Brief(PatientUser(HandlePropagateClick(input_text)))
    \/ \E selected_text \in Selections, now \in Times("rabbithole") :
           Brief(PatientUser(RabbitholeCallback(selected_text, now)))
    \/ \E selected_text \in Selections, now \in Times("fork") :
           Brief(PatientUser(ForkCallback(selected_text, now)))
    \/ \E branch_id \in DOMAIN branch_conversations \cup {NoBranch} :
           Brief(PatientUser(OnBranchSelect(branch_id)))
    \/ \E k \in DOMAIN sequences :
           \E outcome \in Replies(Speaker(sequences[k])) \cup {Raised} :
               Brief(Scheduler(WorkerRun(k, outcome)))
    \/ \E k \in DOMAIN sequences : Brief(Scheduler(OnAiResponseReceived(k)))
    \/ \E k \in DOMAIN sequences : Brief(Scheduler(OnAiResultReceived(k)))
    \/ \E k \in DOMAIN sequences : Brief(Scheduler(OnAiError(k)))
    \/ \E k \in DOMAIN sequences : Brief(Scheduler(StartAi2Turn(k)))
    \/ \E k \in DOMAIN sequences : Brief(Scheduler(HandleTurnCompletion(k)))

\* the steps that need no user: the thread pool runs every worker it was
\* given, and the event loop delivers every signal a worker emitted
PoolAndEventLoop ==
    \E k \in DOMAIN sequences :
        \/ \E outcome \in Replies(Speaker(sequences[k])) \cup {Raised} :
               Brief(Scheduler(WorkerRun(k, outcome)))
        \/ Brief(Scheduler(OnAiResponseReceived(k)))
        \/ Brief(Scheduler(OnAiResultReceived(k)))
        \/ Brief(Scheduler(OnAiError(k)))
        \/ Brief(Scheduler(StartAi2Turn(k)))
        \/ Brief(Scheduler(HandleTurnCompletion(k)))

\* the patient user's specification, with workers and signals not left waiting
\* for ever
LiveSpec == Init /\ [][BriefNext]_vars /\ WF_vars(PoolAndEventLoop)

\* a user who does not wait: the context menu and the branch tree stay usable
\* while workers run, the Propagate button whenever it is enabled
Eager(A) ==
    /\ Scheduler(A)
    /\ user_actions' <= MaxEagerActions
    /\ pairs_started' <= MaxEagerPairs
    /\ errors_raised' <= MaxEagerErrors

\* the scheduler with a user who also acts while a worker pair is in flight
EagerNext ==
    \/ \E input_text \in UserTexts \cup {<<>>} :
           Eager(HandlePropagateClick(input_text))
    \/ \E selected_text \in Selections, now \in Times("rabbithole") :
           Eager(RabbitholeCallback(selected_text, now))
    \/ \E selected_text \in Selections, now \in Times("fork") :
           Eager(ForkCallback(selected_text, now))
    \/ \E branch_id \in DOMAIN branch_conversations \cup {NoBranch} :
           Eager(OnBranchSelect(branch_id))
    \/ \E k \in DOMAIN sequences :
           \E outcome \in Replies(Speaker(sequences[k])) \cup {Raised} :
               Eager(WorkerRun(k, outcome))
    \/ \E k \in DOMAIN sequences : Eager(OnAiResponseReceived(k))
    \/ \E k \in DOMAIN sequences : Eager(OnAiResultReceived(k))
    \/ \E k \in DOMAIN sequences : Eager(OnAiError(k))
    \/ \E k \in DOMAIN sequences : Eager(StartAi2Turn(k))
    \/ \E k \in DOMAIN sequences : Eager(HandleTurnCompletion(k))

EagerSpec == Init /\ [][EagerNext]_vars

\* what ai_turn returns when the provider call ended in an error: the error
\* envelope of invoke_provider, or the one of ai_turn's own except branch
FailedReplies == {ErrorReply}

\* the scheduler while every provider call fails: each Worker.run emits an
\* error envelope's content as its response, or raises
FailingNext ==
    \/ \E input_text \in UserTexts \cup {<<>>} :
           PatientUser(HandlePropagateClick(input_text))
    \/ \E selected_text \in Selections, now \in Times("rabbithole") :
           PatientUser(RabbitholeCallback(selected_text, now))
    \/ \E selected_text \in Selections, now \in Times("fork") :
           PatientUser(ForkCallback(selected_text, now))
    \/ \E branch_id \in DOMAIN branch_conversations \cup {NoBranch} :
           PatientUser(OnBranchSelect(branch_id))
    \/ \E k \in DOMAIN sequences :
           \E outcome \in FailedReplies \cup {Raised} :
               Scheduler(WorkerRun(k, outcome))
    \/ \E k \in DOMAIN sequences : Scheduler(OnAiResponseReceived(k))
    \/ \E k \in DOMAIN sequences : Scheduler(OnAiResultReceived(k))
    \/ \E k \in DOMAIN sequences : Scheduler(OnAiError(k))
    \/ \E k \in DOMAIN sequences : Scheduler(StartAi2Turn(k))
    \/ \E k \in DOMAIN sequences : Scheduler(HandleTurnCompletion(k))

FailingSpec == Init /\ [][FailingNext]_vars

----------------------------------------------------------------------------
(* The message list of ai_turn *)

Last(s) == s[Len(s)]

\* the filtered history of a call ends on a message of the speaker itself
EndsOnOwnMessage(turn) ==
    turn.filtered # <<>> /\ Last(turn.filtered).ai_name = turn.ai_name

\* C1: the message list ai_turn assembles never ends with an entry of role
\* assistant; when the filtered history ends on the speaker's own message, the
\* list is the system message, the history and one user message appended
\* after it.
C1_TrailingRole ==
    last_turn.messages # <<>> =>
        /\ Last(last_turn.messages).role # "assistant"
        /\ EndsOnOwnMessage(last_turn) =>
               /\ Len(last_turn.messages) = Len(last_turn.filtered) + 2
               /\ Last(last_turn.messages).role = "user"
               /\ last_turn.messages[Len(last_turn.messages) - 1].role = "assistant"
               /\ last_turn.messages[Len(last_turn.messages) - 1].content
                      = Last(last_turn.filtered).content

\* a call whose filtered history ended on the speaker's own message
C1_Witness ==
    /\ EndsOnOwnMessage(last_turn)
    /\ Len(last_turn.messages) = Len(last_turn.filtered) + 2

----------------------------------------------------------------------------
(* Branch transcripts at creation *)

\* text ends with s, and s occurs in it nowhere earlier
EndsAtFirstOccurrence(text, s) ==
    /\ Len(text) >= Len(s)
    /\ OccursAt(s, text, Len(text) - Len(s) + 1)
    /\ \A i \in 1..(Len(text) - Len(s)) : ~OccursAt(s, text, i)

IsPrefix(s, t) == Len(s) <= Len(t) /\ SubSeq(t, 1, Len(s)) = s

IsPlainSystem(msg) == msg.role = "system" /\ ~IsIndicator(msg)

NotIndicator(msg) == ~IsIndicator(msg)

\* the latest branch is a fork whose anchor fork_callback found in the parent
ForkFound ==
    /\ last_branch.type = "fork"
    /\ TruncateIdx(last_branch.parent_conversation, last_branch.selected_text) > 0

\* the fork's copy of the message holding the anchor is that message, its
\* content cut to end at the end of the anchor's first occurrence, and the
\* parent's messages before it are copied as they are
ForkCutAtAnchor ==
    LET P == last_branch.parent_conversation
        C == last_branch.conversation
        t == TruncateIdx(P, last_branch.selected_text)
    IN  /\ Len(C) > t
        /\ \A i \in 1..(t - 1) : C[i] = P[i]
        /\ [C[t] EXCEPT !.content = <<>>] = [P[t] EXCEPT !.content = <<>>]
        /\ IsPrefix(C[t].content, P[t].content)
        /\ EndsAtFirstOccurrence(C[t].content, last_branch.selected_text)

\* C3 as stated: the anchor message is cut at the anchor, and the fork
\* transcript holds no message of any role from after it in the parent: before
\* its indicator it holds the parent's messages up to the anchor message only.
C3_NoLaterMessage ==
    ForkFound =>
        /\ ForkCutAtAnchor
        /\ Len(last_branch.conversation) - 1
               = TruncateIdx(last_branch.parent_conversation, last_branch.selected_text)

\* C3, amended: the anchor message is cut at the anchor, and the fork
\* transcript holds no user or assistant message from after it in the parent;
\* the parent's later system messages that are no branch indicators are all
\* copied, in order, between the cut message and the fork's indicator.
C3_NoLaterUserOrAssistant ==
    ForkFound =>
        LET P == last_branch.parent_conversation
            C == last_branch.conversation
            t == TruncateIdx(P, last_branch.selected_text)
        IN  /\ ForkCutAtAnchor
            /\ \A i \in (t + 1)..(Len(C) - 1) : C[i].role \notin {"user", "assistant"}
            /\ SubSeq(C, t + 1, Len(C) - 1)
                   = SelectSeq(SubSeq(P, t + 1, Len(P)), IsPlainSystem)
            /\ IsIndicator(Last(C))

\* a fork that shortened the anchor message, dropped a later user or assistant
\* message and kept a later system message
C3_Witness ==
    /\ ForkFound
    /\ LET P == last_branch.parent_conversation
           C == last_branch.conversation
           t == TruncateIdx(P, last_branch.selected_text)
       IN  /\ Len(C[t].content) < Len(P[t].content)
           /\ \E j \in (t + 1)..Len(P) : P[j].role \in {"user", "assistant"}
           /\ \E j \in (t + 1)..Len(P) : IsPlainSystem(P[j])

RECURSIVE IsSubsequence(_, _)
\* the entries of s occur in t, in the same order
IsSubsequence(s, t) ==
    IF s = <<>> THEN TRUE
    ELSE IF t = <<>> THEN FALSE
    ELSE IF Head(s) = Head(t) THEN IsSubsequence(Tail(s), Tail(t))
    ELSE IsSubsequence(s, Tail(t))

\* C4 as stated: a rabbithole transcript at creation is at least as long as
\* its parent and holds every parent message unmodified, in the same order.
C4_EveryParentMessage ==
    last_branch.type = "rabbithole" =>
        /\ Len(last_branch.conversation) >= Len(last_branch.parent_conversation)
        /\ IsSubsequence(last_branch.parent_conversation, last_branch.conversation)

\* C4, amended: a rabbithole transcript at creation is the parent's messages
\* that are no branch indicators, unmodified and in the same order, followed
\* by the new indicator; its length is their number plus one.
C4_EveryParentMessageButIndicators ==
    last_branch.type = "rabbithole" =>
        LET P == last_branch.parent_conversation
            C == last_branch.conversation
        IN  /\ Len(C) = Cardinality({i \in 1..Len(P) : ~IsIndicator(P[i])}) + 1
            /\ SubSeq(C, 1, Len(C) - 1) = SelectSeq(P, NotIndicator)
            /\ IsIndicator(Last(C))
            /\ Contains(Last(C).content, last_branch.selected_text)

\* a rabbithole made from a branch: the parent holds an indicator and more
C4_Witness ==
    /\ last_branch.type = "rabbithole"
    /\ \E i \in 1..Len(last_branch.parent_conversation) :
           IsIndicator(last_branch.parent_conversation[i])
    /\ \E i \in 1..Len(last_branch.parent_conversation) :
           last_branch.parent_conversation[i].role = "assistant"

----------------------------------------------------------------------------
(* The turn sequence *)

SeededMainRun(seq) ==
    /\ seq.pc = "done"
    /\ seq.quiet
    /\ seq.seeded
    /\ seq.alone
    /\ seq.target = NoBranch

\* the messages such a sequence appended to the main transcript
Appended(seq) == SubSeq(main_conversation, seq.base + 1, Len(main_conversation))

TurnSpeaker(j) == IF j % 2 = 1 THEN "AI-1" ELSE "AI-2"

\* C6 as stated: the sequence appended exactly N messages of AI-1 and N of
\* AI-2, alternating and starting with AI-1, and the scheduler stopped.
C6_SpeakersAlternate ==
    \A k \in DOMAIN sequences :
        SeededMainRun(sequences[k]) =>
            LET seq == sequences[k]
            IN  /\ Len(Appended(seq)) = 2 * seq.max_iterations
                /\ \A j \in 1..Len(Appended(seq)) :
                       /\ Appended(seq)[j].role = "assistant"
                       /\ Appended(seq)[j].ai_name = TurnSpeaker(j)
                /\ ~loading

\* C6, amended: the sequence appended exactly 2N messages, the j-th being
\* the message of AI-1 (j odd) or AI-2 (j even), or, where that speaker's
\* worker raised, a system message with the error text; it ran N pairs and
\* the scheduler stopped.
C6_TurnsAlternate ==
    \A k \in DOMAIN sequences :
        SeededMainRun(sequences[k]) =>
            LET seq == sequences[k]
            IN  /\ Len(Appended(seq)) = 2 * seq.max_iterations
                /\ \A j \in 1..Len(Appended(seq)) :
                       \/ /\ Appended(seq)[j].role = "assistant"
                          /\ Appended(seq)[j].ai_name = TurnSpeaker(j)
                       \/ /\ Appended(seq)[j].role = "system"
                          /\ IsPrefix(ErrorPrefix, Appended(seq)[j].content)
                /\ seq.pair_no = seq.max_iterations
                /\ ~loading

\* a stopped two-pair sequence on main in which a worker raised and another
\* replied
C6_Witness ==
    \E k \in DOMAIN sequences :
        /\ SeededMainRun(sequences[k])
        /\ sequences[k].max_iterations = 2
        /\ \E j \in 1..Len(Appended(sequences[k])) :
               Appended(sequences[k])[j].role = "system"
        /\ \E j \in 1..Len(Appended(sequences[k])) :
               Appended(sequences[k])[j].role = "assistant"

----------------------------------------------------------------------------
(* The provider gateway *)

\* the handler keys of the calls made, in order
CalledProviders == [i \in 1..Len(provider_call.calls) |-> provider_call.calls[i].provider]

\* a finished call whose primary and fallback tags both have a handler, the
\* two being different
FallbackConfigured ==
    /\ provider_call.pc = "done"
    /\ Registered(LowerTag(provider_call.provider_name))
    /\ provider_call.payload.fallback_provider # NoProvider
    /\ Registered(LowerTag(provider_call.payload.fallback_provider))
    /\ LowerTag(provider_call.payload.fallback_provider)
           # LowerTag(provider_call.provider_name)

\* the primary handler's reply is an error envelope: it raised, or its
\* normalized reply has role system
PrimaryErrored ==
    LET raw_result == provider_call.raw[LowerTag(provider_call.provider_name)]
    IN  raw_result.kind = "raise" \/ NormalizeResponse(raw_result).role = "system"

\* C7 as stated: when the primary's reply is an error envelope and a fallback
\* is configured, the primary and the fallback handler are called, each once
\* and no other, and the reply returned is the fallback's, with provider equal
\* to the fallback provider.
C7_FallbackSingleHop ==
    (FallbackConfigured /\ PrimaryErrored) =>
        LET fallback_key == LowerTag(provider_call.payload.fallback_provider)
            raw_result == provider_call.raw[fallback_key]
        IN  /\ CalledProviders = <<LowerTag(provider_call.provider_name), fallback_key>>
            /\ provider_call.response.provider = fallback_key
            /\ raw_result.kind # "raise" =>
                   /\ provider_call.response.role = NormalizeResponse(raw_result).role
                   /\ provider_call.response.content
                          = NormalizeResponse(raw_result).content

\* C8: a call with no provider tag, or with a tag whose lower-cased form has
\* no entry in the registry, calls the OpenRouter handler exactly once and no
\* other handler, and returns its normalized reply with provider "openrouter".
C8_DefaultRouting ==
    (/\ provider_call.pc = "done"
     /\ \/ provider_call.provider_name = NoProvider
        \/ LowerTag(provider_call.provider_name) \notin PROVIDER_REGISTRY) =>
        /\ CalledProviders = <<"openrouter">>
        /\ provider_call.calls[1].model_id = provider_call.payload.model_id
        /\ provider_call.response.provider = "openrouter"
        /\ provider_call.response.role
               = NormalizeResponse(provider_call.raw["openrouter"]).role
        /\ provider_call.response.content
               = NormalizeResponse(provider_call.raw["openrouter"]).content

\* a call with an unregistered tag and a fallback configured, answered by
\* OpenRouter
C8_Witness ==
    /\ provider_call.pc = "done"
    /\ provider_call.provider_name = "mistral"
    /\ provider_call.payload.fallback_provider = "deepseek"
    /\ provider_call.response.role = "assistant"
    /\ provider_call.response.provider = "openrouter"

\* the text between the first and the last element that is no whitespace
Trimmed(t) ==
    LET inked == {i \in 1..Len(t) : t[i] \notin Whitespace}
    IN  IF inked = {} THEN <<>>
        ELSE SubSeq(t, CHOOSE i \in inked : \A k \in inked : i <= k,
                       CHOOSE j \in inked : \A k \in inked : k <= j)

\* normalize_response has been applied to the plain string
Normalized == normalize_call.result.role # "(none)"

\* C9 as stated: a plain string that starts with "error", in any case, gives a
\* system envelope; any other gives an assistant envelope with the string
\* unchanged as content.
C9_StartsWithError ==
    Normalized =>
        IF StartsWith(LowerText(normalize_call.input), <<"e", "r", "r", "o", "r">>)
        THEN normalize_call.result.role = "system"
        ELSE /\ normalize_call.result.role = "assistant"
             /\ normalize_call.result.content = normalize_call.input

\* C9, amended: a plain string that starts with "error", in any case, once
\* its leading and trailing whitespace is removed gives a system envelope
\* with the string so trimmed as content; any other gives an assistant
\* envelope with the string unchanged as content.
C9_TrimmedStartsWithError ==
    Normalized =>
        IF StartsWith(LowerText(Trimmed(normalize_call.input)), <<"e", "r", "r", "o", "r">>)
        THEN /\ normalize_call.result.role = "system"
             /\ normalize_call.result.content = Trimmed(normalize_call.input)
        ELSE /\ normalize_call.result.role = "assistant"
             /\ normalize_call.result.content = normalize_call.input

\* an error text with whitespace before and after it, normalized
C9_Witness ==
    /\ Normalized
    /\ normalize_call.result.role = "system"
    /\ normalize_call.input # <<>>
    /\ normalize_call.input[1] \in Whitespace
    /\ normalize_call.input[Len(normalize_call.input)] \in Whitespace

----------------------------------------------------------------------------
(* Reasoning blocks *)

\* C10 as stated: applying format_reasoning_response again to the content it
\* returned gives the same content and extracts no reasoning.
C10_Idempotent ==
    reasoning_call.pc = "again" =>
        /\ reasoning_call.again.content = reasoning_call.first.content
        /\ reasoning_call.again.reasoning = Absent

----------------------------------------------------------------------------
(* The order of the two speakers within a pair *)

\* worker2 has just been started, after a worker1 that returned a reply
Speaker2Started(seq) == seq.pc = "ai2_run" /\ ~seq.result.raised

\* worker2's copy holds an assistant message of Speaker 1 with the reply
\* worker1 returned, as on_ai_response_received or on_ai_result_received
\* stored it
SnapshotHoldsResponse(seq) ==
    \E i \in 1..Len(seq.conversation2) :
        /\ seq.conversation2[i].role = "assistant"
        /\ seq.conversation2[i].ai_name = "AI-1"
        /\ seq.conversation2[i].content \in {seq.result.content, seq.result.display}

\* C11: Speaker 2's worker is started only after Speaker 1's worker has
\* finished, and the copy of the transcript Speaker 2's prompt is built from
\* contains the response of Speaker 1 appended in this pair.
C11_SnapshotAfterSpeaker1 ==
    \A k \in DOMAIN sequences :
        Speaker2Started(sequences[k]) => SnapshotHoldsResponse(sequences[k])

----------------------------------------------------------------------------
(* One turn sequence per transcript *)

\* a sequence some worker or signal of which is still outstanding
InFlight(seq) == seq.pc # "done"

\* C12: no transcript (the main one or a branch's) has two turn sequences in
\* flight at the same time, whatever the user does while a worker runs.
C12_OneSequencePerTranscript ==
    \A j, k \in DOMAIN sequences :
        /\ j # k
        /\ InFlight(sequences[j])
        /\ InFlight(sequences[k])
        => sequences[j].target # sequences[k].target

----------------------------------------------------------------------------
(* The transcripts only grow *)

\* the same message, whatever on_ai_result_received stored as its content
SameMessage(m, n) ==
    /\ m.role = n.role
    /\ m.ai_name = n.ai_name
    /\ m.hidden = n.hidden
    /\ m._type = n._type

\* every message of the transcript before the step is at its place after it
KeepsMessages(before, after) ==
    /\ Len(after) >= Len(before)
    /\ \A i \in 1..Len(before) : SameMessage(before[i], after[i])

\* the step is a rabbithole_callback or a fork_callback: only they read the
\* clock and record the branch they made
CreatesBranch == clock' # clock \/ last_branch' # last_branch

\* the transcript the step's branch creation starts
StartedNow(b) == CreatesBranch /\ b = last_branch'.branch_id

\* C13: no step of the scheduler removes a message from the main transcript
\* or a branch transcript or moves it; a transcript changes by appending only.
\* (The transcript a branch creation starts is that creation's own.)
C13_AppendOnly ==
    [][/\ KeepsMessages(main_conversation, main_conversation')
       /\ \A b \in DOMAIN branch_conversations :
              \/ StartedNow(b)
              \/ /\ b \in DOMAIN branch_conversations'
                 /\ KeepsMessages(branch_conversations[b].conversation,
                                  branch_conversations'[b].conversation)]_vars

----------------------------------------------------------------------------
(* Failed pairs and the turn count *)

\* the pairs a sequence has completed
PairsCompleted(seq) == IF InFlight(seq) THEN seq.pair_no - 1 ELSE seq.pair_no

\* C14: every completed pair of a sequence is counted in turn_count, the pairs
\* whose calls failed too, on the main transcript and on any branch, so a
\* sequence stops after at most maxIterations pairs.
C14_FailedTurnCounts ==
    \A k \in DOMAIN sequences :
        sequences[k].quiet =>
            /\ turn_count = PairsCompleted(sequences[k])
            /\ PairsCompleted(sequences[k]) <= sequences[k].max_iterations

----------------------------------------------------------------------------
(* Provider errors in the transcript *)

\* the main transcript and the branches' transcripts
Transcripts ==
    {main_conversation}
        \cup {branch_conversations[b].conversation : b \in DOMAIN branch_conversations}

\* C15: the error text of a provider call that ended in an error is in the
\* transcript as a message of role system, and the scheduler continues with
\* Speaker 2's turn or the turn completion.
C15_ErrorAsSystemMessage ==
    \A t \in Transcripts : \A i \in 1..Len(t) :
        t[i].content = ErrorReply.content => t[i].role = "system"

----------------------------------------------------------------------------
(* The branch table *)

\* the branch is still the one that was created under this ID
SameBranch(before, after) ==
    /\ before.type = after.type
    /\ before.selected_text = after.selected_text
    /\ before.parent = after.parent

\* C16: every branch creation adds exactly one entry to the branch table,
\* under an ID no existing branch has, and no step removes or replaces an
\* existing branch, whenever the creations happen.
C16_BranchIdsUnique ==
    [][/\ \A b \in DOMAIN branch_conversations :
              /\ b \in DOMAIN branch_conversations'
              /\ SameBranch(branch_conversations[b], branch_conversations'[b])
       /\ IF CreatesBranch
          THEN /\ last_branch'.branch_id \notin DOMAIN branch_conversations
               /\ DOMAIN branch_conversations'
                      = DOMAIN branch_conversations \cup {last_branch'.branch_id}
          ELSE DOMAIN branch_conversations' = DOMAIN branch_conversations]_vars

----------------------------------------------------------------------------
(* Workers and the transcripts *)

\* the copy of the transcript the worker a sequence is at was given
WorkerCopy(seq) ==
    IF Speaker(seq) = "AI-1" THEN seq.conversation1 ELSE seq.conversation2

\* the step is the run of the worker of sequence k: the sequence leaves the
\* stage "run" for the stage of the signal the worker emits, all else in place
WorkerStep(k) ==
    /\ AtStage(sequences[k], "run")
    /\ DOMAIN sequences' = DOMAIN sequences
    /\ AtStage(sequences'[k], "response") \/ AtStage(sequences'[k], "error")
    /\ \A j \in DOMAIN sequences : j # k => sequences'[j] = sequences[j]

\* the transcript a sequence was started on, as it is now
LiveTranscript(seq) ==
    IF seq.target = NoBranch THEN main_conversation
    ELSE branch_conversations[seq.target].conversation

\* C17: a worker's run (Worker.run and ai_turn) changes no transcript; it
\* reads the copy of the transcript the worker was given, and the transcripts
\* are changed by the handlers of the worker's signals and of the user's
\* actions only.
C17_WorkersNeverWrite ==
    [][\A k \in DOMAIN sequences :
           WorkerStep(k) =>
               /\ main_conversation' = main_conversation
               /\ branch_conversations' = branch_conversations
               /\ last_turn'.conversation = WorkerCopy(sequences[k])]_vars

\* a worker has run on its copy while the transcript its sequence was started
\* on had already been changed by another sequence's handlers
C17_Witness ==
    \E k \in DOMAIN sequences :
        /\ AtStage(sequences[k], "response")
        /\ last_turn.conversation = WorkerCopy(sequences[k])
        /\ last_turn.ai_name = Speaker(sequences[k])
        /\ last_turn.conversation # LiveTranscript(sequences[k])

----------------------------------------------------------------------------
(* The system prompt of the calls made in a branch *)

\* the system prompt a call was sent: the first entry of its message list
SentSystemPrompt(turn) == turn.messages[1].content

\* the persona prompt configured for a speaker
PersonaOf(ai_name) == PersonaPrompt(IF ai_name = "AI-1" THEN "AI_1" ELSE "AI_2")

\* the prompts the code builds around a rabbithole's anchor text
RabbitholeOverrides(text) == {RabbitholeHiddenPrompt(text), RabbitholePrompt(text)}

\* the last call was made in a rabbithole branch
RabbitholeCall ==
    last_turn.messages # <<>> /\ IsRabbithole(last_turn.conversation)

\* C18: in a rabbithole branch every call made while fewer than 2 assistant
\* messages follow the branch's latest indicator is sent the override built
\* on the anchor text as its system prompt, whatever was inherited from the
\* parent, and every later call is sent the speaker's persona prompt.
C18_RabbitholeOverride ==
    RabbitholeCall =>
        IF AiResponseCount(last_turn.conversation) < 2
        THEN SentSystemPrompt(last_turn)
                 \in RabbitholeOverrides(BranchText(last_turn.conversation))
        ELSE SentSystemPrompt(last_turn) = PersonaOf(last_turn.ai_name)

\* the prompt ai_turn builds for the first call of a fork
ForkOverride(text) ==
    <<"The conversation forks from'">> \o text
        \o <<"'. Continue naturally from this point.">>

\* the last call was made in a fork branch
ForkCall == last_turn.messages # <<>> /\ IsFork(last_turn.conversation)

\* C19: in a fork branch the call that produces the first assistant message
\* after the branch indicator is sent the fork-continuation override as its
\* system prompt, and every later call is sent the speaker's persona prompt.
C19_ForkOverride ==
    ForkCall =>
        IF AiResponseCount(last_turn.conversation) = 0
        THEN SentSystemPrompt(last_turn)
                 = ForkOverride(BranchText(last_turn.conversation))
        ELSE SentSystemPrompt(last_turn) = PersonaOf(last_turn.ai_name)

----------------------------------------------------------------------------
(* Empty provider replies *)

\* a reply with no usable text and no reasoning: None, or a dict whose
\* content is missing or blank, without error text and without reasoning
EmptyReply(raw_result) ==
    \/ raw_result.kind = "none"
    \/ /\ raw_result.kind = "dict"
       /\ raw_result.content = Absent \/ IsBlank(raw_result.content)
       /\ raw_result.error = Absent
       /\ Falsy(raw_result.reasoning)

\* a finished call whose registered primary handler handed back an empty reply
PrimaryEmpty ==
    /\ provider_call.pc = "done"
    /\ Registered(LowerTag(provider_call.provider_name))
    /\ EmptyReply(provider_call.raw[LowerTag(provider_call.provider_name)])

\* C20: an empty provider reply is normalized to an envelope of role system
\* whose content begins with "Error", and when a fallback provider is
\* configured invoke_provider makes its one fallback hop for it.
C20_EmptyReplyIsError ==
    PrimaryEmpty =>
        IF FallbackConfigured
        THEN CalledProviders
                 = <<LowerTag(provider_call.provider_name),
                     LowerTag(provider_call.payload.fallback_provider)>>
        ELSE /\ provider_call.response.role = "system"
             /\ StartsWithError(provider_call.response.content)

----------------------------------------------------------------------------
(* Blank replies *)

\* C21: normalize_response never returns an envelope of role assistant whose
\* content is empty or whitespace only, whatever form the raw reply has.
C21_NoBlankAssistant ==
    /\ Normalized =>
           ~(normalize_call.result.role = "assistant"
             /\ IsBlank(normalize_call.result.content))
    /\ (provider_call.pc = "done" /\ Len(provider_call.calls) = 1) =>
           ~(provider_call.response.role = "assistant"
             /\ IsBlank(provider_call.response.content))

----------------------------------------------------------------------------
(* The system entry of the message list *)

RECURSIVE SystemMessages(_)
\* the messages of role system of a transcript, branch indicators included
SystemMessages(conversation) ==
    IF conversation = <<>> THEN <<>>
    ELSE IF Head(conversation).role = "system"
         THEN <<Head(conversation)>> \o SystemMessages(Tail(conversation))
         ELSE SystemMessages(Tail(conversation))

\* the worker of a sequence has returned and its signal is not handled yet
WorkerReturned(seq) == AtStage(seq, "response") \/ AtStage(seq, "error")

\* C22: the message list ai_turn assembles has exactly one entry of role
\* system, its first; no message of role system and no branch indicator of
\* the transcript is among the history entries; and those messages are still
\* in the stored transcript when the call has returned.
C22_OneSystemEntry ==
    last_turn.messages # <<>> =>
        /\ last_turn.messages[1].role = "system"
        /\ \A i \in 2..Len(last_turn.messages) : last_turn.messages[i].role # "system"
        /\ \A k \in 1..Len(last_turn.filtered) :
               /\ last_turn.filtered[k].role # "system"
               /\ ~IsIndicator(last_turn.filtered[k])
               /\ last_turn.messages[k + 1].content = last_turn.filtered[k].content
        /\ \A k \in DOMAIN sequences :
               WorkerReturned(sequences[k]) =>
                   SystemMessages(LiveTranscript(sequences[k]))
                       = SystemMessages(last_turn.conversation)

\* a call has returned whose transcript held a branch indicator and another
\* message of role system, next to history that was sent
C22_Witness ==
    /\ last_turn.filtered # <<>>
    /\ \E k \in DOMAIN sequences : WorkerReturned(sequences[k])
    /\ \E i, j \in 1..Len(last_turn.conversation) :
           /\ IsIndicator(last_turn.conversation[i])
           /\ IsPlainSystem(last_turn.conversation[j])

----------------------------------------------------------------------------
(* The roles of the history entries *)

\* the entry of the message list that carries the k-th kept message
HistoryEntry(turn, k) == turn.messages[k + 1]

\* C23: each kept message is sent with role assistant exactly when its
\* ai_name is the speaker's; a message of the human or of the other AI is
\* sent with role user, whatever role it is stored with.
C23_RoleAssignment ==
    last_turn.messages # <<>> =>
        /\ Len(last_turn.messages) > Len(last_turn.filtered)
        /\ \A k \in 1..Len(last_turn.filtered) :
               /\ HistoryEntry(last_turn, k).role \in {"assistant", "user"}
               /\ HistoryEntry(last_turn, k).role = "assistant"
                      <=> last_turn.filtered[k].ai_name = last_turn.ai_name

\* a call whose history held a message of the speaker, a message of the other
\* AI stored with role assistant, and a message of the human
C23_Witness ==
    \E i, j, k \in 1..Len(last_turn.filtered) :
        /\ last_turn.filtered[i].ai_name = last_turn.ai_name
        /\ last_turn.filtered[j].ai_name \notin {last_turn.ai_name, NoName}
        /\ last_turn.filtered[j].role = "assistant"
        /\ HistoryEntry(last_turn, j).role = "user"
        /\ last_turn.filtered[k].ai_name = NoName
        /\ HistoryEntry(last_turn, k).role = "user"

----------------------------------------------------------------------------
(* The duplicate test of the history *)

\* the positions of the transcript whose message passes the skip tests and
\* has no message of equal content passing them before it
FirstOccurrences(conversation) ==
    {i \in 1..Len(conversation) :
        /\ ~Skipped(conversation[i])
        /\ \A j \in 1..(i - 1) :
               ~Skipped(conversation[j]) =>
                   conversation[j].content # conversation[i].content}

\* the k-th smallest element of a set of positions
Nth(positions, k) ==
    CHOOSE i \in positions : Cardinality({j \in positions : j < i}) = k - 1

\* C24: the history of a call is the kept messages of the transcript in
\* transcript order, and of the messages of equal content the first is the
\* one kept: every later one is dropped, whoever sent it.
C24_KeepsEarliest ==
    last_turn.messages # <<>> =>
        LET firsts == FirstOccurrences(last_turn.conversation)
        IN  /\ Len(last_turn.filtered) = Cardinality(firsts)
            /\ \A k \in 1..Len(last_turn.filtered) :
                   /\ last_turn.filtered[k] = last_turn.conversation[Nth(firsts, k)]
                   /\ last_turn.messages[k + 1].content
                          = last_turn.conversation[Nth(firsts, k)].content

\* a call in which a message was dropped for the content of an earlier one
\* that a different sender had sent, with a kept message between the two
C24_Witness ==
    \E i, j, m \in 1..Len(last_turn.conversation) :
        /\ last_turn.messages # <<>>
        /\ i < m /\ m < j
        /\ i \in FirstOccurrences(last_turn.conversation)
        /\ m \in FirstOccurrences(last_turn.conversation)
        /\ ~Skipped(last_turn.conversation[j])
        /\ last_turn.conversation[j].content = last_turn.conversation[i].content
        /\ last_turn.conversation[j].ai_name # last_turn.conversation[i].ai_name

----------------------------------------------------------------------------
(* The end of a turn sequence *)

\* the step handles the finished signal of Speaker 2's worker of sequence k
PairCompleted(k) ==
    /\ sequences[k].pc = "ai2_finished"
    /\ sequences' # sequences

\* the step appends one marker message to the transcript of the sequence
MarkerAppended(seq) ==
    LET before == LiveTranscript(seq)
        after == LiveTranscript(seq)'
    IN  /\ Len(after) = Len(before) + 1
        /\ SubSeq(after, 1, Len(before)) = before
        /\ after[Len(after)].role = "system"

\* the text is a marker that tells the user the sequence is paused
PausedMarker(text) == \E i \in 1..Len(text) : text[i] \in {"paused", "Paused"}

\* C25: when a completed pair brings the turn count to max_iterations, no
\* further worker is started, a "paused" marker message is emitted and the
\* loading indicator is left stopped; when the count is still below
\* max_iterations, the next turn of Speaker 1 is started without user input.
C25_PauseOnLimit ==
    [][\A k \in DOMAIN sequences :
           PairCompleted(k) =>
               IF turn_count + 1 < sequences[k].max_iterations
               THEN /\ user_actions' = user_actions
                    /\ \E j \in DOMAIN sequences' : sequences'[j].pc = "ai1_run"
               ELSE /\ \A j \in DOMAIN sequences' : ~InFlight(sequences'[j])
                    /\ ~loading'
                    /\ \/ PausedMarker(CompletedStatus(sequences[k].max_iterations))
                       \/ MarkerAppended(sequences[k])]_vars

----------------------------------------------------------------------------
(* Resuming after the limit *)

\* the step is a click on Propagate (with text or without) that starts a
\* turn sequence
UserStartsSequence ==
    /\ user_actions' = user_actions + 1
    /\ pairs_started' = pairs_started + 1
    /\ ~CreatesBranch

\* the step handles the end of a pair of sequence k and starts the next pair
\* without user input
AutoContinues(k) ==
    /\ PairCompleted(k)
    /\ pairs_started' = pairs_started + 1

\* C26: a click on Propagate that starts a sequence while the turn count is
\* at or above max_iterations sets the turn count to 0 before the first
\* turn; the automatic continuation between two pairs never resets the
\* count.
C26_ResumeAfterPause ==
    [][/\ (UserStartsSequence /\ turn_count >= iterations_selector) => turn_count' = 0
       /\ \A k \in DOMAIN sequences :
              AutoContinues(k) => turn_count' = turn_count + 1]_vars

----------------------------------------------------------------------------
(* The DeepSeek chain *)

\* a finished call for the tag deepseek whose payload names no fallback
\* provider
DeepSeekWithoutFallback ==
    /\ provider_call.pc = "done"
    /\ LowerTag(provider_call.provider_name) = "deepseek"
    /\ provider_call.payload.fallback_provider = NoProvider

\* C27: for the tag deepseek with no fallback provider in the payload, a
\* failing call of the official DeepSeek handler is followed by one call of
\* the handler of deepseek_legacy, whose reply is returned.
C27_DeepSeekChain ==
    (DeepSeekWithoutFallback /\ PrimaryErrored) =>
        /\ CalledProviders = <<"deepseek", "deepseek_legacy">>
        /\ provider_call.response.provider = "deepseek_legacy"

----------------------------------------------------------------------------
(* A fork whose anchor is in no single message *)

\* the step is a fork_callback whose selection is in no user or assistant
\* message of the parent transcript
ForksWithoutAnchor ==
    /\ CreatesBranch
    /\ last_branch'.type = "fork"
    /\ \A i \in 1..Len(ActiveConversation(Current)) :
           ~HoldsSelection(ActiveConversation(Current)[i], last_branch'.selected_text)

\* C28: when no single user or assistant message of the parent holds the
\* anchor, fork_callback still creates the fork; its transcript is a copy of
\* every parent message that is not a branch indicator, in order, followed by
\* the fork's indicator; and the parent transcript is left as it was.
C28_ForkDegradation ==
    [][ForksWithoutAnchor =>
           LET parent == ActiveConversation(Current)
               kept == SelectSeq(parent, NotIndicator)
               made == last_branch'.conversation
               id == last_branch'.branch_id
           IN  /\ id \in DOMAIN branch_conversations'
               /\ active_branch' = id
               /\ branch_conversations'[id].type = "fork"
               /\ made = Append(kept, ForkIndicator(last_branch'.selected_text))
               /\ IsPrefix(made, branch_conversations'[id].conversation)
               /\ main_conversation' = main_conversation
               /\ active_branch # NoBranch =>
                      /\ active_branch \in DOMAIN branch_conversations'
                      /\ branch_conversations'[active_branch].conversation = parent]_vars

----------------------------------------------------------------------------
(* The attempted providers *)

\* C29: a call of invoke_provider ends after at most two handler calls and
\* calls no provider's handler twice, also when the fallback provider is the
\* primary provider and when the fallback's reply is an error itself.
C29_NoFallbackCycle ==
    provider_call.pc = "done" =>
        /\ Len(provider_call.calls) \in {1, 2}
        /\ \A i, j \in 1..Len(provider_call.calls) :
               i < j => CalledProviders[i] # CalledProviders[j]

\* the primary's reply was an error and the fallback provider is the primary
\* itself: the call ended after the one handler call
C29_Witness ==
    /\ provider_call.pc = "done"
    /\ Registered(LowerTag(provider_call.provider_name))
    /\ provider_call.payload.fallback_provider # NoProvider
    /\ LowerTag(provider_call.payload.fallback_provider)
           = LowerTag(provider_call.provider_name)
    /\ provider_call.response.role = "system"
    /\ StartsWithError(provider_call.response.content)
    /\ CalledProviders = <<LowerTag(provider_call.provider_name)>>

----------------------------------------------------------------------------
(* The payload of the fallback call *)

\* the call made its fallback hop: a second handler was called
FallbackHopMade == FallbackConfigured /\ Len(provider_call.calls) = 2

\* C30: the fallback handler is called with the payload of the primary call,
\* its model replaced by the fallback model, or left as the original model
\* when no fallback model is configured; the caller's payload keeps its
\* model.
C30_FallbackPayload ==
    FallbackHopMade =>
        /\ provider_call.calls[1].model_id = provider_call.payload.model_id
        /\ provider_call.calls[2].model_id =
               IF provider_call.payload.fallback_model # NoModel
               THEN provider_call.payload.fallback_model
               ELSE provider_call.payload.model_id

----------------------------------------------------------------------------
(* The provider tag of the returned envelope *)

\* the envelope ai_turn hands on to the worker for the finished call
ReturnedEnvelope == ResolveProvider(provider_call.response, provider_call.provider_name)

\* C31: the envelope returned to the scheduler carries the tag of the
\* provider whose handler produced the returned content, which is the
\* handler called last: the fallback's after a fallback hop, openrouter's on
\* the default path, the primary's otherwise.
C31_ProviderTag ==
    provider_call.pc = "done" =>
        /\ ReturnedEnvelope.provider # NoProvider
        /\ LowerTag(ReturnedEnvelope.provider) = Last(CalledProviders)

----------------------------------------------------------------------------
(* The answer surfaced from the reasoning *)

\* the reasoning blocks of the formatted reply, in order, each once
BlocksOfCall ==
    Deduped(StrippedNonBlank(reasoning_call.reasoning_blocks)
                \o StrippedNonBlank(FindBlocks(reasoning_call.content, 1)), {})

\* the reply was formatted, nothing was left of its content after the
\* reasoning tags were removed, and there is reasoning
OnlyReasoning ==
    /\ reasoning_call.pc \in {"formatted", "again"}
    /\ Strip(RemoveBlocks(reasoning_call.content, 1)) = <<>>
    /\ reasoning_call.first.reasoning # Absent

\* the text of the answer match of the latest block that has one; <<>> when
\* no block has one
LatestAnswer(blocks) ==
    LET hits == {k \in 1..Len(blocks) : AnswerCandidate(blocks[k]) # <<>>}
    IN  IF hits = {} THEN <<>> ELSE AnswerCandidate(blocks[MaxOf(hits)])

\* C32: when nothing is left of the content and there is reasoning, the
\* content returned is not empty: it is the text of an "answer:" match found
\* by going through all reasoning blocks from the last to the first; with no
\* match in any block, the last non-empty line of the last block; failing
\* that, the whole reasoning text.
C32_AnswerSynthesis ==
    OnlyReasoning =>
        /\ reasoning_call.first.content # <<>>
        /\ reasoning_call.first.content =
               IF LatestAnswer(BlocksOfCall) # <<>> THEN LatestAnswer(BlocksOfCall)
               ELSE IF LastLine(Last(BlocksOfCall)) # <<>>
               THEN LastLine(Last(BlocksOfCall))
               ELSE reasoning_call.first.reasoning

----------------------------------------------------------------------------
(* The user message appended after the history *)

\* the call appended a user message after a history that ended on the
\* speaker's own message
TrailingAppended(turn) ==
    /\ turn.messages # <<>>
    /\ EndsOnOwnMessage(turn)
    /\ Len(turn.messages) = Len(turn.filtered) + 2

\* the two instructions that are specific to a branch
BranchInstructions(conversation) ==
    {RabbitholeInstruction(BranchText(conversation)),
     ForkInstruction(BranchText(conversation))}

\* C33: the appended user message is the rabbithole instruction only while
\* the rabbithole branch has fewer than two AI responses since its indicator,
\* the fork instruction only for the first AI response of a fork, and in
\* every other case, the later turns of both kinds of branch included, the
\* continuation prompt that is specific to no branch.
C33_TrailingMessage ==
    TrailingAppended(last_turn) =>
        LET conversation == last_turn.conversation
            content == Last(last_turn.messages).content
        IN  IF IsRabbithole(conversation) /\ AiResponseCount(conversation) < 2
            THEN content = RabbitholeInstruction(BranchText(conversation))
            ELSE IF IsFork(conversation) /\ AiResponseCount(conversation) = 0
            THEN content = ForkInstruction(BranchText(conversation))
            ELSE content \notin BranchInstructions(conversation)

----------------------------------------------------------------------------
(* Hidden messages *)

\* the content is among the history entries of the call's message list
SentInHistory(turn, content) ==
    \E k \in 1..Len(turn.filtered) : turn.messages[k + 1].content = content

\* the step handles the error signal of the worker of sequence k
ErrorHandled(k) ==
    /\ AtStage(sequences[k], "error")
    /\ DOMAIN sequences' = DOMAIN sequences
    /\ AtStage(sequences'[k], "finished")

\* C34: a hidden message of the transcript is sent to the provider unless it
\* is the "connecting" placeholder, and the conversation handed to the
\* display never holds a hidden message: the hidden instruction of a fork
\* reaches the provider and is not rendered.
C34_HiddenMessages ==
    [][/\ \A i \in 1..Len(last_turn'.conversation) :
              LET msg == last_turn'.conversation[i]
              IN  (msg.hidden /\ ~HasConnect(msg.content)) =>
                      SentInHistory(last_turn', msg.content)
       /\ \A k \in DOMAIN sequences :
              ErrorHandled(k) =>
                  ErrorDisplay(Current)' = VisibleConversation(ErrorDisplay(Current)')]_vars

----------------------------------------------------------------------------
(* Failure paths and the progress of a pair *)

\* a worker of Speaker 1 (of Speaker 2) has been started and has not run yet
Speaker1Started == \E k \in DOMAIN sequences : sequences[k].pc = "ai1_run"
Speaker2Running == \E k \in DOMAIN sequences : sequences[k].pc = "ai2_run"

\* the finished signal of Speaker 2's worker has been handled: the sequence
\* has ended, or its next pair has been started
PairHandled == Idle \/ Speaker1Started

\* the next pair would pass the number of pairs the model follows
PairsExhausted ==
    /\ pairs_started = MaxLivePairs
    /\ \E k \in DOMAIN sequences :
           /\ sequences[k].pc = "ai2_finished"
           /\ StartsAnotherTurn(turn_count + 1, sequences[k].max_iterations)

\* C35: no failure path stalls the scheduler: whether the worker's turn
\* succeeded, returned an error envelope or raised, its finished signal is
\* emitted, so a started turn of Speaker 1 is followed by a turn of Speaker 2
\* and a started turn of Speaker 2 by the completion of the pair.
C35_NoStall ==
    /\ Speaker1Started ~> Speaker2Running
    /\ Speaker2Running ~> (PairHandled \/ PairsExhausted)

\* the worker of Speaker 1 raised, and the turn of Speaker 2 was started
C35_Witness ==
    \E k \in DOMAIN sequences :
        /\ sequences[k].pc = "ai2_run"
        /\ sequences[k].result.raised

----------------------------------------------------------------------------
(* Responses and the transcript of their sequence *)

\* the transcript of the main conversation or of branch b, before the step
TranscriptOf(b) ==
    IF b = NoBranch THEN main_conversation
    ELSE branch_conversations[b].conversation

\* the same transcript after the step
TranscriptAfter(b) ==
    IF b = NoBranch THEN main_conversation'
    ELSE branch_conversations'[b].conversation

\* the step handles the response signal of the worker sequence k is at
ResponseHandled(k) ==
    /\ AtStage(sequences[k], "response")
    /\ DOMAIN sequences' = DOMAIN sequences
    /\ AtStage(sequences'[k], "result")

\* the step starts Speaker 2's worker of sequence k
Speaker2Launched(k) ==
    /\ sequences[k].pc = "ai1_finished"
    /\ DOMAIN sequences' = DOMAIN sequences
    /\ sequences'[k].pc = "ai2_run"

\* the step handles the end of the pair of sequence k and starts the next
\* pair, the user doing nothing
ContinuedAfter(k) ==
    /\ sequences[k].pc = "ai2_finished"
    /\ pairs_started' = pairs_started + 1
    /\ user_actions' = user_actions

\* the step appends one message to the transcript sequence k was started on
\* and changes no other transcript
RoutedToOwn(k) ==
    LET own == sequences[k].target
    IN  /\ own \in DOMAIN branch_conversations' \cup {NoBranch}
        /\ Len(TranscriptAfter(own)) = Len(TranscriptOf(own)) + 1
        /\ SubSeq(TranscriptAfter(own), 1, Len(TranscriptOf(own))) = TranscriptOf(own)
        /\ \A b \in DOMAIN branch_conversations \cup {NoBranch} :
               b # own => TranscriptAfter(b) = TranscriptOf(b)

\* C36: the response or the error of a worker is appended to the transcript
\* its sequence was started on and to no other, also when the user has
\* selected or created another branch meanwhile; Speaker 2's copy is taken
\* from that transcript, and the pair started without the user runs on it.
C36_ResponseRouting ==
    [][\A k \in DOMAIN sequences :
           /\ (ResponseHandled(k) \/ ErrorHandled(k)) => RoutedToOwn(k)
           /\ Speaker2Launched(k) =>
                  sequences'[k].conversation2 = TranscriptOf(sequences[k].target)
           /\ ContinuedAfter(k) =>
                  \E j \in DOMAIN sequences' :
                      /\ sequences'[j].pc = "ai1_run"
                      /\ sequences'[j].pair_no = sequences[k].pair_no + 1
                      /\ sequences'[j].target = sequences[k].target]_vars

----------------------------------------------------------------------------
(* The turn count and the other transcripts *)

\* the step is a user's action that starts a sequence on transcript t
StartsOn(t) ==
    /\ user_actions' = user_actions + 1
    /\ pairs_started' = pairs_started + 1
    /\ Len(sequences') = Len(sequences) + 1
    /\ Last(sequences').target = t

\* the step handles the end of a pair of a sequence started on transcript t
CompletesOn(t) ==
    \E k \in DOMAIN sequences :
        /\ sequences[k].pc = "ai2_finished"
        /\ sequences[k].target = t
        /\ user_actions' = user_actions
        /\ \/ sequences' = [sequences EXCEPT ![k].pc = "done"]
           \/ /\ pairs_started' = pairs_started + 1
              /\ Len(sequences') = Len(sequences)
              /\ SubSeq(sequences', 1, Len(sequences) - 1) = Without(sequences, k)
              /\ Last(sequences').pair_no = sequences[k].pair_no + 1

\* a sequence started on transcript u is in flight
RunsOn(u) ==
    \E j \in DOMAIN sequences :
        InFlight(sequences[j]) /\ sequences[j].target = u

\* C37: starting a sequence on one transcript, which resets its count, or
\* completing a pair on it leaves the count of completed pairs as it was
\* that decides when a sequence running on another branch or on the main
\* transcript pauses.
C37_PerBranchCount ==
    [][\A t, u \in DOMAIN branch_conversations' \cup {NoBranch} :
           /\ StartsOn(t) \/ CompletesOn(t)
           /\ u # t
           /\ RunsOn(u)
           => GoverningCount(u)' = GoverningCount(u)]_vars

----------------------------------------------------------------------------
(* One indicator per branch *)

\* the positions of the branch indicators of a transcript
Indicators(conversation) ==
    {i \in 1..Len(conversation) : conversation[i]._type = "branch_indicator"}

\* C38: in every reachable state a branch's transcript holds exactly one
\* branch indicator, the one appended when the branch was created, also when
\* it was created from another branch, and the main transcript holds none.
C38_SingleIndicator ==
    /\ Indicators(main_conversation) = {}
    /\ \A b \in DOMAIN branch_conversations :
           Cardinality(Indicators(branch_conversations[b].conversation)) = 1

----------------------------------------------------------------------------
(* Branch creation and the parent *)

\* the transcript of the branch the step's creation was made from
ParentOf(created) ==
    IF created.parent = NoBranch THEN main_conversation
    ELSE branch_conversations[created.parent].conversation

\* the same transcript after the step
ParentAfter(created) ==
    IF created.parent = NoBranch THEN main_conversation'
    ELSE branch_conversations'[created.parent].conversation

\* sequence k runs on a branch and the step handles its response or error
ChildAppended(k) ==
    /\ sequences[k].target # NoBranch
    /\ ResponseHandled(k) \/ ErrorHandled(k)

\* C39: rabbithole_callback and fork_callback leave the parent transcript as
\* it was, its length, its order and the content of every message (the fork
\* truncates a copy), and a turn appended to the child later is not appended
\* to the parent.
C39_ParentUntouched ==
    [][/\ CreatesBranch =>
              LET created == branch_conversations'[last_branch'.branch_id]
              IN  ParentAfter(created) = ParentOf(created)
       /\ \A k \in DOMAIN sequences :
              ChildAppended(k) =>
                  LET child == branch_conversations[sequences[k].target]
                  IN  ParentAfter(child) = ParentOf(child)]_vars

====
